---- MODULE Spec2Model ----
(***************************************************************************)
(* A model of ckanext-shptoapi: the identifier sanitizer and the spatial   *)
(* store operations (db.py), the ingestion pipeline (logic.py), the read   *)
(* facade (routes.py) and the resource hooks (plugin.py).                  *)
(*                                                                         *)
(* Text is modelled as a sequence of one-character strings, so that the    *)
(* regular expressions, the splitting, the lower-casing and the slicing of *)
(* the source are computed and not assumed.                                *)
(***************************************************************************)
EXTENDS Integers, Sequences, FiniteSets, TLC

VARIABLES
    schemaArg,      \* db.py: the schema argument of the store operation under test
    tableArg,       \* db.py: the table argument (or the vector_table attribute)
    db,             \* the spatial database: full table name -> table contents
    sqlLog,         \* the SQL statements the last operation sent to the database
    result,         \* what the last operation returned or raised
    resource_id,    \* logic.py: the resource identifier given to _build_table_name
    table_prefix,   \* logic.py: the configured ckanext.shptoapi.table_prefix
    derived,        \* the results of the table-name derivation steps
    archive,        \* logic.py: the entries of the uploaded ZIP, in archive order
    listing,        \* what os.walk lists in the scratch directory after the call
    disk,           \* the files in the scratch directory, oldest first
    extracted,      \* what _extract_and_validate returned or raised
    content,        \* logic.py: the tokens of the .prj text
    pyproj,         \* the behaviour of the fallback CRS library on that text
    srid,           \* what _detect_srid returned or raised
    config,         \* the CKAN configuration read by the handlers
    resource,       \* the CKAN resource: url_type, format, url and its extras
    response,       \* what the last handler returned or raised
    trace,          \* the steps the last handler performed, in order
    run,            \* the ingestion run the last handler made, if any
    request,        \* the parameters of the request the last handler served
    peers           \* two resources being ingested at the same time

storeVars  == <<schemaArg, tableArg, sqlLog, result>>
deriveVars == <<resource_id, table_prefix, derived>>
archVars   == <<archive, listing, disk, extracted>>
sridVars   == <<content, pyproj, srid>>
mainVars   == <<config, resource, response, trace, run, request>>
pairVars   == <<peers>>
vars == <<schemaArg, tableArg, db, sqlLog, result, resource_id, table_prefix,
          derived, archive, listing, disk, extracted, content, pyproj, srid,
          config, resource, response, trace, run, request, peers>>

(***************************************************************************)
(* Bounds of the model.                                                    *)
(***************************************************************************)
MaxNameLen == 3
MaxIdLen == 2
MaxPad == 60
MaxEntries == 3
MaxFiles == 5
MaxTokens == 3
MaxCount == 2

(***************************************************************************)
(* Text.                                                                   *)
(***************************************************************************)
NL == "\n"
UpperSeq == <<"A", "B", "C", "D", "E", "F", "G", "H", "I", "J", "K", "L", "M",
             "N", "O", "P", "Q", "R", "S", "T", "U", "V", "W", "X", "Y", "Z">>
LowerSeq == <<"a", "b", "c", "d", "e", "f", "g", "h", "i", "j", "k", "l", "m",
             "n", "o", "p", "q", "r", "s", "t", "u", "v", "w", "x", "y", "z">>
UpperCase == {UpperSeq[i] : i \in 1..26}
LowerCase == {LowerSeq[i] : i \in 1..26}
Digits == {"0", "1", "2", "3", "4", "5", "6", "7", "8", "9"}
IdChars == {"a", "Z", "7", "-", "_"}

lower_char(c) ==
    IF c \in UpperCase
    THEN LowerSeq[CHOOSE i \in 1..26 : UpperSeq[i] = c]
    ELSE c

lower(s) == [i \in 1..Len(s) |-> lower_char(s[i])]

Texts(chars, n) == UNION {[1..k -> chars] : k \in 0..n}

RECURSIVE Rep(_, _)
Rep(c, n) == IF n = 0 THEN <<>> ELSE <<c>> \o Rep(c, n - 1)

Take(s, n) == IF Len(s) <= n THEN s ELSE SubSeq(s, 1, n)

\* str.split("."): the parts between the dots, in order.
RECURSIVE split_dot(_)
split_dot(s) ==
    IF \A i \in 1..Len(s) : s[i] # "."
    THEN <<s>>
    ELSE LET i == CHOOSE k \in 1..Len(s) :
                      s[k] = "." /\ \A j \in 1..(k - 1) : s[j] # "."
         IN  <<SubSeq(s, 1, i - 1)>> \o split_dot(SubSeq(s, i + 1, Len(s)))

(***************************************************************************)
(* db.py: the identifier sanitizer.                                        *)
(***************************************************************************)
IdentStart == UpperCase \cup LowerCase \cup {"_"}
IdentBody == IdentStart \cup Digits

\* re.match of ^[A-Za-z_][A-Za-z0-9_]*$ as Python evaluates it: without
\* re.MULTILINE, "$" matches at the end of the text and also just before a
\* line feed that ends the text.
SAFE_NAME_match(value) ==
    /\ Len(value) >= 1
    /\ value[1] \in IdentStart
    /\ \E k \in 1..Len(value) :
          /\ \A i \in 2..k : value[i] \in IdentBody
          /\ \/ k = Len(value)
             \/ k = Len(value) - 1 /\ value[Len(value)] = NL

\* An exception: its class, what it reports, and for a database error (raw
\* or wrapped) what the database said: "UndefinedTable" when the statement
\* names a table that does not exist, "OperationalError" when the database
\* fails the statement.
ShpToApiError(kind) == [cls |-> "ShpToApiError", kind |-> kind, cause |-> ""]
StoreError(cause) == [cls |-> "ShpToApiError", kind |-> "SpatialStoreError", cause |-> cause]
SQLAlchemyError(cause) == [cls |-> "SQLAlchemyError", kind |-> "database", cause |-> cause]
DbCause(fault) == IF fault THEN "OperationalError" ELSE "UndefinedTable"
NoError == [cls |-> "", kind |-> "", cause |-> ""]
Raise(err) == [ok |-> FALSE, err |-> err, value |-> <<>>]
Return(value) == [ok |-> TRUE, err |-> NoError, value |-> value]

safe_identifier(value, kind) ==
    IF value = <<>> \/ ~SAFE_NAME_match(value)
    THEN Raise(ShpToApiError("InvalidIdentifier"))
    ELSE Return(value)

build_full_table_table_only(schema, table) ==
    LET t == safe_identifier(table, "table") IN
    IF ~t.ok THEN t
    ELSE IF schema # <<>> THEN Return(schema \o <<".">> \o t.value)
    ELSE Return(t.value)

build_full_table(schema, table) ==
    LET t == safe_identifier(table, "table") IN
    IF ~t.ok THEN t
    ELSE IF schema # <<>>
         THEN LET s == safe_identifier(schema, "schema") IN
              IF ~s.ok THEN s
              ELSE Return(s.value \o <<".">> \o t.value)
         ELSE Return(t.value)

(***************************************************************************)
(* db.py: the spatial store.  The database maps the name of each existing  *)
(* table to its contents.  Every operation returns what it returned or     *)
(* raised, the database it leaves and the statements it sent; "fault" is   *)
(* the database failing the statement (SQLAlchemyError).                   *)
(***************************************************************************)
Table(count, tsrid, indexed) == [count |-> count, srid |-> tsrid, indexed |-> indexed]

\* A statement: the identifiers written into its text and its bound parameters.
Stmt(verb, idents, params) == [verb |-> verb, idents |-> idents, params |-> params]

Outcome(r, d, sql) ==
    [ok |-> r.ok, err |-> r.err, value |-> r.value, db |-> d, sql |-> sql]

Without(d, full) == [t \in DOMAIN d \ {full} |-> d[t]]

With(d, full, tbl) == [t \in DOMAIN d \cup {full} |-> IF t = full THEN tbl ELSE d[t]]

\* ST_Extent is NULL on an empty table; parse_extent(None) is None.
parse_extent(extent) == IF extent = <<>> THEN <<>> ELSE <<"minx", "miny", "maxx", "maxy">>

fetch_metadata(d, schema, table, fault) ==
    LET full == build_full_table(schema, table) IN
    IF ~full.ok THEN Outcome(full, d, <<>>)
    ELSE IF fault \/ full.value \notin DOMAIN d
         THEN Outcome(Raise(StoreError(DbCause(fault))), d,
                      <<Stmt("SELECT ST_Extent", <<full.value>>, <<>>)>>)
         ELSE LET t == d[full.value] IN
              Outcome(Return([bbox |-> parse_extent(IF t.count = 0 THEN <<>> ELSE <<"BOX">>),
                              geom_type |-> IF t.count = 0 THEN <<>> ELSE <<"MULTIPOLYGON">>,
                              feature_count |-> t.count]),
                      d,
                      <<Stmt("SELECT ST_Extent", <<full.value>>, <<>>),
                        Stmt("SELECT GeometryType", <<full.value>>, <<>>),
                        Stmt("SELECT COUNT", <<full.value>>, <<>>)>>)

fetch_features(d, schema, table, limit, offset, fault) ==
    LET full == build_full_table(schema, table) IN
    IF ~full.ok THEN Outcome(full, d, <<>>)
    ELSE IF fault \/ full.value \notin DOMAIN d
         THEN Outcome(Raise(StoreError(DbCause(fault))), d,
                      <<Stmt("SELECT ST_AsGeoJSON", <<full.value>>, <<limit, offset>>)>>)
         ELSE IF limit < 0 \/ offset < 0
         THEN Outcome(Raise(StoreError("InvalidRowCount")), d,
                      <<Stmt("SELECT ST_AsGeoJSON", <<full.value>>, <<limit, offset>>)>>)
         ELSE LET n == d[full.value].count
                  rest == IF offset >= n THEN 0 ELSE n - offset
              IN  Outcome(Return(IF rest < limit THEN rest ELSE limit),
                          d, <<Stmt("SELECT ST_AsGeoJSON", <<full.value>>, <<limit, offset>>)>>)

GeomGist == <<"_", "g", "e", "o", "m", "_", "g", "i", "s", "t">>

ensure_spatial_index(d, schema, table, fault) ==
    LET full == build_full_table(schema, table) IN
    IF ~full.ok THEN Outcome(full, d, <<>>)
    ELSE LET index_name == safe_identifier(table \o GeomGist, "index") IN
         IF ~index_name.ok THEN Outcome(index_name, d, <<>>)
         ELSE IF fault \/ full.value \notin DOMAIN d
              THEN Outcome(Raise(SQLAlchemyError(DbCause(fault))), d,
                           <<Stmt("CREATE INDEX", <<index_name.value, full.value>>, <<>>)>>)
              ELSE Outcome(Return(<<>>),
                           With(d, full.value, [d[full.value] EXCEPT !.indexed = TRUE]),
                           <<Stmt("CREATE INDEX", <<index_name.value, full.value>>, <<>>),
                             Stmt("ANALYZE", <<full.value>>, <<>>)>>)

drop_table(d, schema, table, fault) ==
    LET full == build_full_table(schema, table) IN
    IF ~full.ok THEN Outcome(full, d, <<>>)
    ELSE IF fault
         THEN Outcome(Raise(SQLAlchemyError(DbCause(fault))), d, <<Stmt("DROP TABLE", <<full.value>>, <<>>)>>)
         ELSE Outcome(Return(<<>>), Without(d, full.value),
                      <<Stmt("DROP TABLE", <<full.value>>, <<>>)>>)

enforce_srid(d, schema, table, tsrid, fault) ==
    LET full == build_full_table(schema, table) IN
    IF ~full.ok THEN Outcome(full, d, <<>>)
    ELSE IF fault \/ full.value \notin DOMAIN d
         THEN Outcome(Raise(SQLAlchemyError(DbCause(fault))), d, <<Stmt("ALTER TABLE", <<full.value>>, <<tsrid>>)>>)
         ELSE Outcome(Return(<<>>),
                      With(d, full.value, [d[full.value] EXCEPT !.srid = tsrid]),
                      <<Stmt("ALTER TABLE", <<full.value>>, <<tsrid>>)>>)

\* The name goes to to_regclass as a bound parameter, not into the statement.
table_exists(d, schema, table, fault) ==
    LET full == build_full_table(schema, table) IN
    IF ~full.ok THEN Outcome(full, d, <<>>)
    ELSE IF fault
         THEN Outcome(Raise(SQLAlchemyError(DbCause(fault))), d, <<Stmt("SELECT to_regclass", <<>>, <<full.value>>)>>)
         ELSE Outcome(Return(full.value \in DOMAIN d), d,
                      <<Stmt("SELECT to_regclass", <<>>, <<full.value>>)>>)

(***************************************************************************)
(* Resource extras: a mapping from the keys present to their values.       *)
(***************************************************************************)
Get(extras, key) == IF key \in DOMAIN extras THEN extras[key] ELSE <<>>

Put(extras, key, v) ==
    [k \in DOMAIN extras \cup {key} |-> IF k = key THEN v ELSE extras[k]]

Pop(extras, keys) == [k \in DOMAIN extras \ keys |-> extras[k]]

\* routes.py: the table reference recorded in the extras; split(".", 1).
vector_info(extras) ==
    LET vector_table == Get(extras, "vector_table") IN
    IF vector_table = <<>>
    THEN Raise(ShpToApiError("NoVectorTable"))
    ELSE LET dotted == \E i \in 1..Len(vector_table) : vector_table[i] = "."
             first == split_dot(vector_table)[1]
         IN  Return([schema |-> IF dotted THEN first ELSE <<>>,
                     table |-> IF dotted
                               THEN SubSeq(vector_table, Len(first) + 2, Len(vector_table))
                               ELSE vector_table,
                     full_table |-> vector_table,
                     srid |-> Get(extras, "srid"),
                     feature_count |-> Get(extras, "feature_count")])

\* routes.py: the panel's drop; a missing attribute or a failing drop is swallowed.
\* logged: log.exception was called, the drop having failed.
Logged(o, logged) == o @@ [logged |-> logged]

drop_vector_table(d, extras, fault) ==
    LET info == vector_info(extras) IN
    IF ~info.ok THEN Logged(Outcome(Return(<<>>), d, <<>>), FALSE)
    ELSE LET o == drop_table(d, info.value.schema, info.value.table, fault) IN
         Logged(Outcome(Return(<<>>), o.db, o.sql), ~o.ok)

\* getattr(resource, "extras", {}) or {}: an object gives its extras; the
\* mapping the host hands to the hook has no such attribute, whatever its keys.
attribute_extras(shape, extras) == IF shape = "object" THEN extras ELSE <<>>

\* plugin.py: the before-delete hook; every exception is logged and swallowed.
before_delete(d, shape, extras, fault) ==
    LET vector_table == Get(attribute_extras(shape, extras), "vector_table")
        schema == Get(attribute_extras(shape, extras), "vector_schema")
    IN  IF vector_table = <<>> THEN Outcome(Return(<<>>), d, <<>>)
        ELSE LET parts == split_dot(vector_table)
                 o == drop_table(d, schema, parts[Len(parts)], fault)
             IN  Outcome(Return(<<>>), o.db, o.sql)

(***************************************************************************)
(* logic.py: table-name derivation.                                        *)
(***************************************************************************)
TableNameLimit == 60

IsAlnum(c) == c \in UpperCase \cup LowerCase \cup Digits

ResourceWord == <<"r", "e", "s", "o", "u", "r", "c", "e">>
VectorPrefix == <<"v", "e", "c", "t", "o", "r", "_">>

build_table_name_keep_all(rid, prefix) ==
    LET safe_id == IF rid = <<>> THEN ResourceWord ELSE rid
    IN  Take(lower(prefix \o safe_id), TableNameLimit)

build_table_name_default_prefix(rid, prefix) ==
    LET stripped == SelectSeq(rid, IsAlnum)
        safe_id == IF stripped = <<>> THEN ResourceWord ELSE stripped
    IN  Take(lower((IF prefix = <<>> THEN VectorPrefix ELSE prefix) \o safe_id),
             TableNameLimit)

build_table_name(rid, prefix) ==
    LET stripped == SelectSeq(rid, IsAlnum)
        safe_id == IF stripped = <<>> THEN ResourceWord ELSE stripped
    IN  Take(lower(prefix \o safe_id), TableNameLimit)

(***************************************************************************)
(* logic.py: archive extraction.  A path is a sequence of components and a *)
(* component is its text split at the dots, each part a text: ".." is      *)
(* three empty parts and "a.shp" is the parts "a" and "shp".               *)
(***************************************************************************)
DotDot == <<<<>>, <<>>, <<>>>>
Dot == <<<<>>, <<>>>>
EmptyComponent == <<<<>>>>
Entry(abs, parts) == [abs |-> abs, parts |-> parts]

\* os.path.normpath on a POSIX path: "." and empty components go, ".." takes
\* the component before it, and at the root of an absolute path it goes too.
RECURSIVE norm_parts(_, _, _)
norm_parts(abs, todo, done) ==
    IF todo = <<>> THEN done
    ELSE LET c == Head(todo) IN
         IF c = Dot \/ c = EmptyComponent THEN norm_parts(abs, Tail(todo), done)
         ELSE IF c = DotDot
              THEN IF done # <<>> /\ done[Len(done)] # DotDot
                   THEN norm_parts(abs, Tail(todo), SubSeq(done, 1, Len(done) - 1))
                   ELSE IF abs THEN norm_parts(abs, Tail(todo), done)
                        ELSE norm_parts(abs, Tail(todo), Append(done, c))
              ELSE norm_parts(abs, Tail(todo), Append(done, c))

normpath(e) == Entry(e.abs, norm_parts(e.abs, e.parts, <<>>))

\* member_path.startswith(".."): the text of a relative path begins with the
\* text of its first component.
startswith_dotdot(e) ==
    /\ ~e.abs
    /\ e.parts # <<>>
    /\ Len(e.parts[1]) >= 3
    /\ e.parts[1][1] = <<>>
    /\ e.parts[1][2] = <<>>

ScratchDir == <<<<<<"t", "m", "p">>>>, <<<<"s", "h", "p", "t", "o", "a", "p", "i", "_">>>>>>

IsPrefix(p, q) == Len(p) <= Len(q) /\ SubSeq(q, 1, Len(p)) = p

\* os.path.abspath(os.path.join(target_dir, member_path))
dest_path(target_dir, m) ==
    IF m.abs THEN norm_parts(TRUE, m.parts, <<>>)
    ELSE norm_parts(TRUE, target_dir \o m.parts, <<>>)

member_unsafe(target_dir, member) ==
    LET member_path == normpath(member) IN
    \/ startswith_dotdot(member_path)
    \/ member_path.abs
    \/ ~IsPrefix(target_dir, dest_path(target_dir, member_path))

\* ZipFile.extract: a member goes under the target directory with the empty,
\* "." and ".." components of its name removed.
extract_member(target_dir, member) ==
    target_dir \o SelectSeq(member.parts,
                            LAMBDA c : c # EmptyComponent /\ c # Dot /\ c # DotDot)

\* The files on disk after the members were written, oldest first.
RECURSIVE extractall(_, _)
extractall(target_dir, members) ==
    IF members = <<>> THEN <<>>
    ELSE LET rest == extractall(target_dir, SubSeq(members, 1, Len(members) - 1))
             f == extract_member(target_dir, members[Len(members)])
         IN  IF \E i \in 1..Len(rest) : rest[i] = f THEN rest ELSE Append(rest, f)

FirstUnsafe(target_dir, members) ==
    CHOOSE i \in 1..Len(members) :
        /\ member_unsafe(target_dir, members[i])
        /\ \A j \in 1..(i - 1) : ~member_unsafe(target_dir, members[j])

\* The check loop and the extractall of _extract_and_validate.
check_then_extract_member_by_member(target_dir, members) ==
    IF \E i \in 1..Len(members) : member_unsafe(target_dir, members[i])
    THEN [unsafe |-> TRUE,
          files |-> extractall(target_dir,
                               SubSeq(members, 1, FirstUnsafe(target_dir, members) - 1))]
    ELSE [unsafe |-> FALSE, files |-> extractall(target_dir, members)]

check_then_extract(target_dir, members) ==
    IF \E i \in 1..Len(members) : member_unsafe(target_dir, members[i])
    THEN [unsafe |-> TRUE, files |-> <<>>]
    ELSE [unsafe |-> FALSE, files |-> extractall(target_dir, members)]

DirOf(f) == SubSeq(f, 1, Len(f) - 1)
NameOf(f) == f[Len(f)]

\* os.walk, top down: the root directory, then the directories below it; the
\* file names of a directory come in the order the file system lists them,
\* here the order in which the files were created.
RECURSIVE dirs_of(_)
dirs_of(files) ==
    IF files = <<>> THEN <<>>
    ELSE LET rest == dirs_of(SubSeq(files, 1, Len(files) - 1))
             d == DirOf(files[Len(files)])
         IN  IF \E i \in 1..Len(rest) : rest[i] = d THEN rest ELSE Append(rest, d)

filenames_in(files, dirpath) ==
    LET there == SelectSeq(files, LAMBDA f : DirOf(f) = dirpath)
    IN  [i \in 1..Len(there) |-> NameOf(there[i])]

os_walk(root_dir, files) ==
    LET below == SelectSeq(dirs_of(files), LAMBDA d : d # root_dir)
        dirpaths == <<root_dir>> \o below
    IN  [i \in 1..Len(dirpaths) |->
            [dirpath |-> dirpaths[i], filenames |-> filenames_in(files, dirpaths[i])]]

EXT_SHP == <<"s", "h", "p">>
EXT_SHX == <<"s", "h", "x">>
EXT_DBF == <<"d", "b", "f">>
EXT_PRJ == <<"p", "r", "j">>
REQUIRED_EXTENSIONS == {EXT_SHP, EXT_SHX, EXT_DBF, EXT_PRJ}

lower_name(n) == [i \in 1..Len(n) |-> lower(n[i])]

\* os.path.splitext(name)[0]: the last dot starts the extension unless only
\* dots come before it.
splitext_base(n) ==
    IF Len(n) >= 2 /\ \E i \in 1..(Len(n) - 1) : n[i] # <<>>
    THEN SubSeq(n, 1, Len(n) - 1)
    ELSE n

endswith_shp(n) == Len(n) >= 2 /\ lower(n[Len(n)]) = EXT_SHP

\* lower_files[key]: of the names with that lower-case form, the one listed last.
lower_files(filenames, key) ==
    filenames[CHOOSE i \in 1..Len(filenames) :
                 /\ lower_name(filenames[i]) = key
                 /\ \A j \in (i + 1)..Len(filenames) : lower_name(filenames[j]) # key]

expected_names(name) ==
    {lower_name(splitext_base(name) \o <<ext>>) : ext \in REQUIRED_EXTENSIONS}

complete_at_exact_case(filenames, i) ==
    /\ endswith_shp(filenames[i])
    /\ expected_names(filenames[i]) \subseteq {filenames[j] : j \in 1..Len(filenames)}

complete_at(filenames, i) ==
    /\ endswith_shp(filenames[i])
    /\ expected_names(filenames[i])
           \subseteq {lower_name(filenames[j]) : j \in 1..Len(filenames)}

NoShapefile == [found |-> FALSE, shp |-> <<>>, shx |-> <<>>, dbf |-> <<>>, prj |-> <<>>]

RECURSIVE find_shapefile(_)
find_shapefile(walk) ==
    IF walk = <<>> THEN NoShapefile
    ELSE LET dirpath == Head(walk).dirpath
             filenames == Head(walk).filenames
             hits == {i \in 1..Len(filenames) : complete_at(filenames, i)}
         IN  IF hits = {} THEN find_shapefile(Tail(walk))
             ELSE LET name == filenames[CHOOSE i \in hits : \A j \in hits : i <= j]
                      base == splitext_base(name)
                  IN  [found |-> TRUE,
                       shp |-> Append(dirpath, name),
                       shx |-> Append(dirpath,
                                      lower_files(filenames, lower_name(base \o <<EXT_SHX>>))),
                       dbf |-> Append(dirpath,
                                      lower_files(filenames, lower_name(base \o <<EXT_DBF>>))),
                       prj |-> Append(dirpath,
                                      lower_files(filenames, lower_name(base \o <<EXT_PRJ>>)))]

extract_and_validate(members, target_dir) ==
    LET x == check_then_extract(target_dir, members) IN
    IF x.unsafe
    THEN [ok |-> FALSE, err |-> ShpToApiError("UnsafeArchiveEntry"),
          value |-> NoShapefile, files |-> x.files]
    ELSE LET shapefile == find_shapefile(os_walk(target_dir, x.files)) IN
         IF ~shapefile.found
         THEN [ok |-> FALSE, err |-> ShpToApiError("IncompleteShapefile"),
               value |-> NoShapefile, files |-> x.files]
         ELSE [ok |-> TRUE, err |-> NoError, value |-> shapefile, files |-> x.files]

(***************************************************************************)
(* logic.py: CRS detection.  The .prj text is a sequence of characters.    *)
(***************************************************************************)
AuthorityWord == <<"a", "u", "t", "h", "o", "r", "i", "t", "y">>
BackSlash == "\\"
Quote == "\""

\* The pattern of the source is a raw string whose backslashes are doubled:
\*     AUTHORITY\\[\"EPSG\",\"(\\d+)\"\\]
\* The regex engine reads it as the word AUTHORITY, a literal backslash, and
\* one character of the class that "[" opens and the final "]" closes; the
\* parenthesis is a member of the class, so the pattern has no group.
PatternClass == {Quote, "E", "P", "S", "G", ",", "(", BackSlash, "d", "+", ")"}

InClassIgnoreCase(c) == \E k \in PatternClass : lower_char(k) = lower_char(c)

pattern_matches_at(text, i) ==
    /\ i + 10 <= Len(text)
    /\ lower(SubSeq(text, i, i + 8)) = AuthorityWord
    /\ text[i + 9] = BackSlash
    /\ InClassIgnoreCase(text[i + 10])

re_search(text) == \E i \in 1..Len(text) : pattern_matches_at(text, i)

IndexError == [cls |-> "IndexError", kind |-> "unexpected", cause |-> ""]

\* lib: the fallback library; "missing" is the import failing, "raises" is
\* CRS.from_wkt failing, and epsg = 0 stands for to_epsg() returning None.
detect_srid(text, lib) ==
    IF re_search(text)
    THEN Raise(IndexError)
    ELSE IF lib.state = "ok" /\ lib.epsg # 0
         THEN Return(lib.epsg)
         ELSE Raise(ShpToApiError("UnknownCrs"))

(***************************************************************************)
(* logic.py: the ingestion pipeline.                                       *)
(*                                                                         *)
(* env is what the environment does during one run: env.stop names the     *)
(* step it makes fail (a run ends at its first failure, so one name is     *)
(* enough), env.pre is the feature count ogrinfo reports (-1: none, the    *)
(* tool is missing, fails, or prints nothing parsable) and env.post is the *)
(* number of rows the loader writes.                                       *)
(***************************************************************************)
T_true == <<"t", "r", "u", "e">>
T_false == <<"f", "a", "l", "s", "e">>
T_On == <<"O", "n">>
T_public == <<"p", "u", "b", "l", "i", "c">>
TruthyWords == {<<"1">>, T_true, <<"y", "e", "s">>, <<"o", "n">>}
FormatAliases == {<<"s", "h", "p">>, <<"s", "h", "a", "p", "e", "f", "i", "l", "e">>,
                  <<"z", "i", "p">>}
DotZip == <<".", "z", "i", "p">>
VectorKeys == {"vector_table", "vector_schema", "srid", "bbox", "geom_type",
               "feature_count"}
CanonicalSrid == 4326

endswith(s, suffix) ==
    Len(s) >= Len(suffix) /\ SubSeq(s, Len(s) - Len(suffix) + 1, Len(s)) = suffix

\* logic._asbool and routes._flag_enabled: str(value).lower() in the truthy words.
asbool(value) == lower(value) \in TruthyWords

should_process_ignoring_flag(res, cfg) ==
    /\ cfg.enabled
    /\ res.url_type = "upload"
    /\ \/ lower(res.format) \in FormatAliases
       \/ endswith(lower(res.url), DotZip)

should_process(res, cfg) ==
    /\ cfg.enabled
    /\ res.url_type = "upload"
    /\ \/ lower(res.format) \in FormatAliases
       \/ endswith(lower(res.url), DotZip)
    /\ \/ cfg.auto_process
       \/ asbool(Get(res.extras, cfg.flag_extra))

\* str(n or ""): the decimal text of n, and the empty text for 0.
str_or_empty(n) == IF n = 0 THEN <<>> ELSE <<n>>

update_extras_replacing(extras, metadata, cfg) ==
    [k \in VectorKeys |->
        CASE k = "vector_table" -> metadata.vector_table
          [] k = "vector_schema" -> metadata.vector_schema
          [] k = "srid" -> str_or_empty(metadata.srid)
          [] k = "bbox" -> metadata.bbox
          [] k = "geom_type" -> metadata.geom_type
          [] k = "feature_count" -> str_or_empty(metadata.feature_count)]

update_extras(extras, metadata, cfg) ==
    LET flag_present == cfg.flag_extra \in DOMAIN extras
        flag_value == Get(extras, cfg.flag_extra)
        updates == [k \in VectorKeys |->
                       CASE k = "vector_table" -> metadata.vector_table
                         [] k = "vector_schema" -> metadata.vector_schema
                         [] k = "srid" -> str_or_empty(metadata.srid)
                         [] k = "bbox" -> metadata.bbox
                         [] k = "geom_type" -> metadata.geom_type
                         [] k = "feature_count" -> str_or_empty(metadata.feature_count)]
        merged == [k \in DOMAIN extras \cup VectorKeys |->
                      IF k \in VectorKeys THEN updates[k] ELSE extras[k]]
    IN  IF flag_present THEN Put(merged, cfg.flag_extra, flag_value) ELSE merged

NoMetadata == [bbox |-> <<>>, geom_type |-> <<>>, feature_count |-> 0, srid |-> 0,
               vector_table |-> <<>>, vector_schema |-> <<>>]

\* The outcome of one ingestion run; measured is the feature count read from
\* the loaded table and counted the one _feature_count returned, -1 when the
\* run did not get that far or, for counted, when _feature_count returned None.
Run(ok, skipped, err, value, d, extras, tr) ==
    [ok |-> ok, skipped |-> skipped, err |-> err, value |-> value, db |-> d,
     extras |-> extras, trace |-> tr, measured |-> -1, counted |-> -1]

Failed(err, d, extras, tr) == Run(FALSE, FALSE, err, NoMetadata, d, extras, tr)

\* ogr2ogr -overwrite replaces the table; when it fails it may already have
\* removed the table it was to replace.
load_to_postgis(d, schema, table_name, env) ==
    IF env.stop = "loader_missing"
    THEN Outcome(Raise(ShpToApiError("LoaderUnavailable")), d, <<>>)
    ELSE LET target == build_full_table(schema, table_name) IN
         IF ~target.ok THEN Outcome(target, d, <<>>)
         ELSE IF env.stop = "load_fail"
              THEN Outcome(Raise(ShpToApiError("LoadFailure")), d, <<>>)
              ELSE IF env.stop = "load_fail_dropped"
                   THEN Outcome(Raise(ShpToApiError("LoadFailure")),
                                Without(d, target.value), <<>>)
                   ELSE Outcome(Return(<<>>),
                                With(d, target.value, Table(env.post, 0, FALSE)), <<>>)

HostError == [cls |-> "HostError", kind |-> "resource_patch", cause |-> ""]

reject_without_drop(cfg, res, d, env, table_name, tr) ==
    Failed(ShpToApiError("FeatureLimitExceeded"), d, res.extras, tr)

\* Lines 60-64: the table just loaded is dropped, then the run fails.
reject_loaded_table(cfg, res, d, env, table_name, tr) ==
    LET x == drop_table(d, cfg.schema, table_name, env.stop = "db_drop") IN
    IF ~x.ok THEN Failed(x.err, x.db, res.extras, Append(tr, "drop_table"))
    ELSE Failed(ShpToApiError("FeatureLimitExceeded"), x.db, res.extras,
                Append(tr, "drop_table"))

\* Lines 65-75: the metadata of the run and its persistence; count is the
\* measured feature count and full the qualified name of the table.
persist(cfg, res, d, env, tr, m, full) ==
    IF ~full.ok THEN Failed(full.err, d, res.extras, tr)
    ELSE IF env.stop = "patch"
         THEN Failed(HostError, d, res.extras, Append(tr, "update_extras"))
         ELSE Run(TRUE, FALSE, NoError,
                  [bbox |-> m.bbox,
                   geom_type |-> m.geom_type,
                   feature_count |-> IF env.pre # -1 THEN env.pre ELSE m.feature_count,
                   srid |-> CanonicalSrid,
                   vector_table |-> full.value,
                   vector_schema |-> cfg.schema],
                  d,
                  update_extras(res.extras,
                                [bbox |-> m.bbox,
                                 geom_type |-> m.geom_type,
                                 feature_count |-> IF env.pre # -1 THEN env.pre
                                                   ELSE m.feature_count,
                                 srid |-> CanonicalSrid,
                                 vector_table |-> full.value,
                                 vector_schema |-> cfg.schema], cfg),
                  Append(tr, "update_extras"))

with_measured(count, r) == [r EXCEPT !.measured = count]

with_counted(count, r) == [r EXCEPT !.counted = count]

limit_then_persist_unchecked(cfg, res, d, env, table_name, tr, m) ==
    IF ~m.ok THEN Failed(m.err, d, res.extras, tr)
    ELSE with_measured(m.value.feature_count,
                       persist(cfg, res, d, env, tr, m.value,
                               build_full_table(cfg.schema, table_name)))

\* Lines 59-75, m being what fetch_metadata returned or raised.
limit_then_persist(cfg, res, d, env, table_name, tr, m) ==
    IF ~m.ok THEN Failed(m.err, d, res.extras, tr)
    ELSE IF m.value.feature_count # 0 /\ m.value.feature_count > cfg.max_features
         THEN with_measured(m.value.feature_count,
                            reject_loaded_table(cfg, res, d, env, table_name, tr))
         ELSE with_measured(m.value.feature_count,
                            persist(cfg, res, d, env, tr, m.value,
                                    build_full_table(cfg.schema, table_name)))

\* Lines 58-75: the measurement, the authoritative limit and the persistence.
measure_and_persist(cfg, res, d, env, table_name, tr) ==
    limit_then_persist(cfg, res, d, env, table_name, Append(tr, "fetch_metadata"),
                       fetch_metadata(d, cfg.schema, table_name, env.stop = "db_fetch"))

\* Line 57 onwards, x being the outcome of ensure_spatial_index.
after_index(cfg, res, env, table_name, tr, x) ==
    IF ~x.ok THEN Failed(x.err, x.db, res.extras, tr)
    ELSE measure_and_persist(cfg, res, x.db, env, table_name, tr)

\* Line 56 onwards, e being the outcome of enforce_srid.
after_enforce(cfg, res, env, table_name, tr, e) ==
    IF ~e.ok THEN Failed(e.err, e.db, res.extras, Append(tr, "enforce_srid"))
    ELSE after_index(cfg, res, env, table_name,
                     tr \o <<"enforce_srid", "ensure_spatial_index">>,
                     ensure_spatial_index(e.db, cfg.schema, table_name,
                                          env.stop = "db_index"))

\* Line 49 onwards, l being the outcome of _load_to_postgis.
after_load(cfg, res, env, table_name, tr, l) ==
    IF ~l.ok THEN Failed(l.err, l.db, res.extras, tr)
    ELSE after_enforce(cfg, res, env, table_name, tr,
                       enforce_srid(l.db, cfg.schema, table_name, CanonicalSrid,
                                    env.stop = "db_enforce"))

\* Lines 41-57: the body of the scratch directory's with-block up to the index.
load_and_enforce(cfg, res, d, env, table_name, tr) ==
    IF env.stop = "unsafe"
    THEN Failed(ShpToApiError("UnsafeArchiveEntry"), d, res.extras, Append(tr, "extract"))
    ELSE IF env.stop = "incomplete"
    THEN Failed(ShpToApiError("IncompleteShapefile"), d, res.extras, Append(tr, "extract"))
    ELSE IF env.stop = "crs"
    THEN Failed(ShpToApiError("UnknownCrs"), d, res.extras,
                tr \o <<"extract", "detect_srid">>)
    ELSE IF env.stop = "crs_unexpected"
    THEN Failed(IndexError, d, res.extras, tr \o <<"extract", "detect_srid">>)
    ELSE IF env.pre # -1 /\ env.pre > cfg.max_features
    THEN with_counted(env.pre,
                      Failed(ShpToApiError("FeatureLimitExceeded"), d, res.extras,
                             tr \o <<"extract", "detect_srid", "feature_count">>))
    ELSE with_counted(env.pre,
                      after_load(cfg, res, env, table_name,
                                 tr \o <<"extract", "detect_srid", "feature_count", "load">>,
                                 load_to_postgis(d, cfg.schema, table_name, env)))

with_cleanup_on_success(r) ==
    IF r.ok THEN [r EXCEPT !.trace = Append(r.trace, "rmtree")] ELSE r

\* Line 40: leaving the with-block removes the scratch directory.
with_cleanup(r) == [r EXCEPT !.trace = Append(r.trace, "rmtree")]

process_resource(cfg, res, d, env) ==
    IF ~should_process(res, cfg)
    THEN Run(TRUE, TRUE, NoError, NoMetadata, d, res.extras, <<"should_process">>)
    ELSE IF env.stop = "file"
    THEN Failed(ShpToApiError("FileMissing"), d, res.extras,
                <<"should_process", "get_file_path">>)
    ELSE IF env.stop = "size"
    THEN Failed(ShpToApiError("SizeLimitExceeded"), d, res.extras,
                <<"should_process", "get_file_path", "validate_size">>)
    ELSE IF env.stop = "dsn"
    THEN Failed(ShpToApiError("NoConnectionString"), d, res.extras,
                <<"should_process", "get_file_path", "validate_size", "build_pg_dsn">>)
    ELSE with_cleanup(
             load_and_enforce(cfg, res, d, env,
                              build_table_name(res.id, cfg.table_prefix),
                              <<"should_process", "get_file_path", "validate_size",
                                "build_pg_dsn", "mkdtemp">>))

(***************************************************************************)
(* routes.py and plugin.py: the handlers.                                  *)
(***************************************************************************)
NotAuthorized == [cls |-> "NotAuthorized", kind |-> "host", cause |-> ""]
ObjectNotFound == [cls |-> "ObjectNotFound", kind |-> "host", cause |-> ""]

NoBody == [vector_table |-> <<>>, srid |-> 0, feature_count |-> 0,
           bbox |-> <<>>, geom_type |-> <<>>]

\* What a handler hands back: the status and the error message or the body;
\* raised is the exception an except clause caught (the one it logs).
Response(handler, status, error, body, raised) ==
    [handler |-> handler, status |-> status, error |-> error, body |-> body,
     raised |-> raised]

Idle == Response("", 0, "", NoBody, NoError)

\* The except clauses of the routes: the status and the message of each error.
error_response_with_detail(handler, err) ==
    Response(handler, IF err.cls = "ShpToApiError" THEN 400 ELSE 500, err.kind, NoBody, err)

error_response(handler, err) ==
    CASE err.cls = "NotAuthorized" -> Response(handler, 403, "Not authorized", NoBody, err)
      [] err.cls = "ShpToApiError" -> Response(handler, 400, err.kind, NoBody, err)
      [] err.cls = "ObjectNotFound" -> Response(handler, 404, "Resource not found", NoBody, err)
      [] OTHER -> Response(handler, 500, "Internal error", NoBody, err)

load_resource(res, env) ==
    IF env.stop = "denied" THEN Raise(NotAuthorized)
    ELSE IF env.stop = "notfound" THEN Raise(ObjectNotFound)
    ELSE Return(res)

\* The ingestion run a handler made, if it made one.
RunInfo(called, r) ==
    [called |-> called, ok |-> r.ok, skipped |-> r.skipped, err |-> r.err,
     value |-> r.value, measured |-> r.measured, counted |-> r.counted]

NoRun == [called |-> FALSE, ok |-> FALSE, skipped |-> FALSE, err |-> NoError,
          value |-> NoMetadata, measured |-> -1, counted |-> -1]

Ready(ok, err, extras, d, tr, info) ==
    [ok |-> ok, err |-> err, extras |-> extras, db |-> d, trace |-> tr, run |-> info]

\* Lines 232-235, r being the outcome of process_resource.
reprocessed(r, tr) ==
    IF ~r.ok THEN Ready(FALSE, r.err, r.extras, r.db,
                        tr \o <<"process_resource">> \o r.trace, RunInfo(TRUE, r))
    ELSE Ready(TRUE, NoError, r.extras, r.db,
               tr \o <<"process_resource">> \o r.trace \o <<"load_resource">>,
               RunInfo(TRUE, r))

reprocess(cfg, res, d, env, tr) == reprocessed(process_resource(cfg, res, d, env), tr)

ensure_vector_ready_never_reprocess(cfg, res, d, env) ==
    Ready(TRUE, NoError, res.extras, d, <<>>, NoRun)

ensure_vector_ready(cfg, res, d, env) ==
    IF ~cfg.enabled THEN Ready(TRUE, NoError, res.extras, d, <<>>, NoRun)
    ELSE IF ~asbool(Get(res.extras, cfg.flag_extra))
    THEN Ready(TRUE, NoError, res.extras, d, <<>>, NoRun)
    ELSE LET info == vector_info(res.extras) IN
         IF ~info.ok THEN reprocess(cfg, res, d, env, <<"vector_info">>)
         ELSE LET x == table_exists(d, info.value.schema, info.value.table,
                                    env.stop = "db_exists")
                  tr == <<"vector_info", "table_exists">>
              IN  IF x.ok /\ x.value = TRUE
                  THEN Ready(TRUE, NoError, res.extras, d, tr, NoRun)
                  ELSE IF ~x.ok /\ x.err.cls # "ShpToApiError"
                       THEN Ready(FALSE, x.err, res.extras, d, tr, NoRun)
                       ELSE reprocess(cfg, res, d, env, tr)

Handled(resp, extras, d, tr, info) ==
    [response |-> resp, extras |-> extras, db |-> d, trace |-> tr, run |-> info]

\* Lines 36-43, m being the outcome of fetch_metadata.
metadata_fetched(ready, tr, info, m) ==
    IF ~m.ok
    THEN Handled(error_response("metadata", m.err), ready.extras, m.db,
                 Append(tr, "fetch_metadata"), ready.run)
    ELSE Handled(Response("metadata", 200, "",
                          [vector_table |-> info.full_table,
                           srid |-> IF info.srid # <<>> THEN info.srid[1]
                                    ELSE CanonicalSrid,
                           feature_count |-> IF info.feature_count # <<>>
                                             THEN info.feature_count[1]
                                             ELSE m.value.feature_count,
                           bbox |-> m.value.bbox,
                           geom_type |-> m.value.geom_type], NoError),
                 ready.extras, m.db, Append(tr, "fetch_metadata"), ready.run)

\* Lines 32-35, table_info being the outcome of _vector_info.
metadata_info(ready, tr, table_info, env) ==
    IF ~table_info.ok
    THEN Handled(error_response("metadata", table_info.err), ready.extras, ready.db,
                 tr, ready.run)
    ELSE metadata_fetched(ready, tr, table_info.value,
                          fetch_metadata(ready.db, table_info.value.schema,
                                         table_info.value.table, env.stop = "db_read"))

\* Line 31 onwards, ready being the outcome of _ensure_vector_ready.
metadata_ready(ready, env) ==
    IF ~ready.ok
    THEN Handled(error_response("metadata", ready.err), ready.extras, ready.db,
                 <<"load_resource">> \o ready.trace, ready.run)
    ELSE metadata_info(ready, <<"load_resource">> \o ready.trace,
                       vector_info(ready.extras), env)

metadata(cfg, res, d, env) ==
    LET loaded == load_resource(res, env) IN
    IF ~loaded.ok
    THEN Handled(error_response("metadata", loaded.err), res.extras, d,
                 <<"load_resource">>, NoRun)
    ELSE metadata_ready(ensure_vector_ready(cfg, res, d, env), env)

\* toolkit.ValidationError(str(exc)): the text of the error it was made from.
ValidationError(err) == [cls |-> "ValidationError", kind |-> err.kind, cause |-> err.cause]

processed_swallowing_unexpected(handler, r) ==
    Handled(IF r.ok \/ r.err.cls # "ShpToApiError"
            THEN Response(handler, 0, "", NoBody, NoError)
            ELSE Response(handler, 0, "ValidationError", NoBody, ValidationError(r.err)),
            r.extras, r.db, r.trace, RunInfo(TRUE, r))

\* Lines 61-68, r being the outcome of process_resource.
processed(handler, r) ==
    Handled(IF r.ok THEN Response(handler, 0, "", NoBody, NoError)
            ELSE Response(handler, 0, "ValidationError", NoBody, ValidationError(r.err)),
            r.extras, r.db, r.trace, RunInfo(TRUE, r))

\* plugin.py: _process turns every failure into a ValidationError.
plugin_process(handler, cfg, res, d, env) ==
    processed(handler, process_resource(cfg, res, d, env))

(***************************************************************************)
(* routes.py: the items route.  A query parameter is absent or a text.     *)
(***************************************************************************)
Absent == [given |-> FALSE, text |-> <<>>]
Given(text) == [given |-> TRUE, text |-> text]

NoRequest == [method |-> "", action |-> "", limit |-> Absent, offset |-> Absent,
              bbox |-> Absent, may_update |-> FALSE]

ValueError == [cls |-> "ValueError", kind |-> "invalid literal", cause |-> ""]

DecimalDigits == <<"0", "1", "2", "3", "4", "5", "6", "7", "8", "9">>

RECURSIVE strip(_)
strip(s) ==
    IF s # <<>> /\ s[1] = " " THEN strip(Tail(s))
    ELSE IF s # <<>> /\ s[Len(s)] = " " THEN strip(SubSeq(s, 1, Len(s) - 1))
    ELSE s

\* The digits of an int() literal: underscores are allowed one at a time
\* between two digits.
digits_ok(s) ==
    /\ s # <<>>
    /\ \A i \in 1..Len(s) :
           \/ s[i] \in Digits
           \/ /\ s[i] = "_"
              /\ 1 < i /\ i < Len(s)
              /\ s[i - 1] \in Digits /\ s[i + 1] \in Digits

RECURSIVE int_value(_)
int_value(s) ==
    IF s = <<>> THEN 0
    ELSE IF s[Len(s)] = "_" THEN int_value(SubSeq(s, 1, Len(s) - 1))
    ELSE 10 * int_value(SubSeq(s, 1, Len(s) - 1))
         + (CHOOSE v \in 0..9 : DecimalDigits[v + 1] = s[Len(s)])

\* int(raw) on a text: blanks around it go, a sign may lead.
int_parse(text) ==
    LET t == strip(text)
        signed == t # <<>> /\ t[1] \in {"+", "-"}
        body == IF signed THEN Tail(t) ELSE t
    IN  IF ~digits_ok(body) THEN Raise(ValueError)
        ELSE IF signed /\ t[1] = "-" THEN Return(0 - int_value(body))
        ELSE Return(int_value(body))

\* _read_int: the default for an absent parameter and for a text int() refuses.
read_int(raw, default) ==
    IF ~raw.given THEN Return(default)
    ELSE IF ~int_parse(raw.text).ok THEN Return(default)
    ELSE int_parse(raw.text)

\* str.split(","): the parts between the commas, in order.
RECURSIVE split_comma(_)
split_comma(s) ==
    IF \A i \in 1..Len(s) : s[i] # ","
    THEN <<s>>
    ELSE LET i == CHOOSE k \in 1..Len(s) :
                      s[k] = "," /\ \A j \in 1..(k - 1) : s[j] # ","
         IN  <<SubSeq(s, 1, i - 1)>> \o split_comma(SubSeq(s, i + 1, Len(s)))

\* The first position of character c in s, 0 when s does not hold it.
find(s, c) ==
    IF \A i \in 1..Len(s) : s[i] # c THEN 0
    ELSE CHOOSE k \in 1..Len(s) : s[k] = c /\ \A j \in 1..(k - 1) : s[j] # c

FloatWords == {<<"i", "n", "f">>, <<"i", "n", "f", "i", "n", "i", "t", "y">>,
               <<"n", "a", "n">>}

\* The unsigned, lower-cased body of a float() literal: digits with an
\* optional fraction and an optional exponent.
float_body_ok(b) ==
    LET e == find(b, "e")
        mant == IF e = 0 THEN b ELSE SubSeq(b, 1, e - 1)
        expo == IF e = 0 THEN <<>> ELSE SubSeq(b, e + 1, Len(b))
        ebody == IF expo # <<>> /\ expo[1] \in {"+", "-"} THEN Tail(expo) ELSE expo
        p == find(mant, ".")
        whole == IF p = 0 THEN mant ELSE SubSeq(mant, 1, p - 1)
        frac == IF p = 0 THEN <<>> ELSE SubSeq(mant, p + 1, Len(mant))
    IN  /\ e # 0 => digits_ok(ebody)
        /\ IF p = 0 THEN digits_ok(whole)
           ELSE /\ whole = <<>> \/ digits_ok(whole)
                /\ frac = <<>> \/ digits_ok(frac)
                /\ whole # <<>> \/ frac # <<>>

\* float(raw) on a text: blanks around it go, a sign may lead, the words inf,
\* infinity and nan are read in any case.
float_parse(text) ==
    LET t == strip(text)
        signed == t # <<>> /\ t[1] \in {"+", "-"}
        body == lower(IF signed THEN Tail(t) ELSE t)
    IN  IF body \in FloatWords \/ float_body_ok(body)
        THEN Return([negative |-> signed /\ t[1] = "-",
                     word |-> body \in FloatWords,
                     literal |-> body])
        ELSE Raise(ValueError)

parse_bbox_param_any_length(raw) ==
    IF ~raw.given \/ raw.text = <<>> THEN Return(<<>>)
    ELSE LET parts == split_comma(raw.text) IN
         IF \E i \in 1..Len(parts) : ~float_parse(parts[i]).ok
         THEN Raise(ShpToApiError("BboxNotNumeric"))
         ELSE Return([i \in 1..Len(parts) |-> float_parse(parts[i]).value])

\* _parse_bbox_param: None for no text, four floats, or a domain error.
parse_bbox_param(raw) ==
    IF ~raw.given \/ raw.text = <<>> THEN Return(<<>>)
    ELSE LET parts == split_comma(raw.text) IN
         IF Len(parts) # 4 THEN Raise(ShpToApiError("BboxShape"))
         ELSE IF \E i \in 1..4 : ~float_parse(parts[i]).ok
         THEN Raise(ShpToApiError("BboxNotNumeric"))
         ELSE Return([i \in 1..4 |-> float_parse(parts[i]).value])

page_limit_unclamped(limit, max_limit) == limit

\* Lines 63-65: the page size never goes above max_items.
page_limit(limit, max_limit) == IF limit > max_limit THEN max_limit ELSE limit

Sent(h, sql) == h @@ [sql |-> sql]

\* Lines 69-70, f being the outcome of fetch_features.
items_fetched(ready, tr, f) ==
    IF ~f.ok
    THEN Sent(Handled(error_response("items", f.err), ready.extras, f.db,
                      Append(tr, "fetch_features"), ready.run), f.sql)
    ELSE Sent(Handled(Response("items", 200, "", [features |-> f.value], NoError),
                      ready.extras, f.db, Append(tr, "fetch_features"), ready.run),
              f.sql)

\* Lines 60-68: the parameters are read and the store is queried.
items_query(ready, tr, info, rq, cfg, env, limit, offset) ==
    IF ~parse_bbox_param(rq.bbox).ok
    THEN Sent(Handled(error_response("items", parse_bbox_param(rq.bbox).err),
                      ready.extras, ready.db, tr, ready.run), <<>>)
    ELSE items_fetched(ready, tr,
                       fetch_features(ready.db, info.schema, info.table,
                                      page_limit(limit.value, cfg.max_items),
                                      offset.value, env.stop = "db_read"))

\* Line 59 onwards, table_info being the outcome of _vector_info.
items_info(ready, tr, table_info, rq, cfg, env) ==
    IF ~table_info.ok
    THEN Sent(Handled(error_response("items", table_info.err), ready.extras, ready.db,
                      tr, ready.run), <<>>)
    ELSE items_query(ready, tr, table_info.value, rq, cfg, env,
                     read_int(rq.limit, 100), read_int(rq.offset, 0))

\* Line 58 onwards, ready being the outcome of _ensure_vector_ready.
items_ready(ready, rq, cfg, env) ==
    IF ~ready.ok
    THEN Sent(Handled(error_response("items", ready.err), ready.extras, ready.db,
                      <<"load_resource">> \o ready.trace, ready.run), <<>>)
    ELSE items_info(ready, <<"load_resource">> \o ready.trace,
                    vector_info(ready.extras), rq, cfg, env)

items(cfg, res, d, env, rq) ==
    LET loaded == load_resource(res, env) IN
    IF ~loaded.ok
    THEN Sent(Handled(error_response("items", loaded.err), res.extras, d,
                      <<"load_resource">>, NoRun), <<>>)
    ELSE items_ready(ensure_vector_ready(cfg, res, d, env), rq, cfg, env)

(***************************************************************************)
(* routes.py: the panel route, and logic.py: the two writes it makes to    *)
(* the attributes.  may_update is what the host answers when asked whether *)
(* the requesting user may update the resource.                            *)
(***************************************************************************)
\* logic.py: resource_show, the flag set, resource_patch.
set_resource_flag(extras, enabled, cfg, env) ==
    IF env.stop = "flag_patch" THEN Raise(HostError)
    ELSE Return(Put(extras, cfg.flag_extra, IF enabled THEN T_true ELSE T_false))

\* logic.py: resource_show, the six keys popped, resource_patch.
clear_vector_metadata(extras, env) ==
    IF env.stop = "clear_patch" THEN Raise(HostError)
    ELSE Return(Pop(extras, VectorKeys))

load_resource_checking_show(res, env, rq) == load_resource(res, env)

\* _load_resource(resource_id, for_update=True): check_access("resource_update").
load_resource_for_update(res, env, rq) ==
    IF ~rq.may_update THEN Raise(NotAuthorized) ELSE load_resource(res, env)

\* Lines 93-94, r being the outcome of process_resource on the flagged resource.
panel_enabled(r, tr) ==
    IF ~r.ok
    THEN Handled(error_response("panel", r.err), r.extras, r.db,
                 tr \o <<"process_resource">> \o r.trace, RunInfo(TRUE, r))
    ELSE Handled(Response("panel", 302, "", NoBody, NoError), r.extras, r.db,
                 tr \o <<"process_resource">> \o r.trace \o <<"redirect">>,
                 RunInfo(TRUE, r))

\* Lines 92-94, flagged being the outcome of set_resource_flag.
panel_enable(cfg, res, d, env, flagged, tr) ==
    IF ~flagged.ok
    THEN Handled(error_response("panel", flagged.err), res.extras, d,
                 Append(tr, "set_resource_flag"), NoRun)
    ELSE panel_enabled(process_resource(cfg, [res EXCEPT !.extras = flagged.value],
                                        d, env),
                       Append(tr, "set_resource_flag"))

\* Lines 97-98, dropped being the outcome of _drop_vector_table and cleared
\* that of clear_vector_metadata.
panel_disabled_keeping_metadata(extras, dropped, cleared, tr) ==
    Sent(Handled(Response("panel", 302, "", NoBody, NoError), extras, dropped.db,
                 tr \o <<"drop_vector_table", "redirect">>, NoRun), dropped.sql)

panel_disabled(extras, dropped, cleared, tr) ==
    IF ~cleared.ok
    THEN Sent(Handled(error_response("panel", cleared.err), extras, dropped.db,
                      tr \o <<"drop_vector_table">>
                         \o (IF dropped.logged THEN <<"log_exception">> ELSE <<>>)
                         \o <<"clear_vector_metadata">>, NoRun), dropped.sql)
    ELSE Sent(Handled(Response("panel", 302, "", NoBody, NoError), cleared.value,
                      dropped.db,
                      tr \o <<"drop_vector_table">>
                         \o (IF dropped.logged THEN <<"log_exception">> ELSE <<>>)
                         \o <<"clear_vector_metadata", "redirect">>,
                      NoRun), dropped.sql)

\* Lines 95-98, flagged being the outcome of set_resource_flag; the table is
\* looked up in the resource as it was loaded.
panel_disable(res, d, env, flagged, tr) ==
    IF ~flagged.ok
    THEN Handled(error_response("panel", flagged.err), res.extras, d,
                 Append(tr, "set_resource_flag"), NoRun)
    ELSE panel_disabled(flagged.value,
                        drop_vector_table(d, res.extras, env.stop = "db_drop"),
                        clear_vector_metadata(flagged.value, env),
                        Append(tr, "set_resource_flag"))

\* Lines 89-101: the POST branch.
panel_post(cfg, res, d, env, rq) ==
    LET loaded == load_resource_for_update(res, env, rq) IN
    IF ~loaded.ok
    THEN Handled(error_response("panel", loaded.err), res.extras, d,
                 <<"load_resource">>, NoRun)
    ELSE IF rq.action = "enable"
    THEN panel_enable(cfg, res, d, env, set_resource_flag(res.extras, TRUE, cfg, env),
                      <<"load_resource">>)
    ELSE IF rq.action = "disable"
    THEN panel_disable(res, d, env, set_resource_flag(res.extras, FALSE, cfg, env),
                       <<"load_resource">>)
    ELSE Handled(error_response("panel", ShpToApiError("InvalidAction")), res.extras, d,
                 <<"load_resource">>, NoRun)

\* Lines 106-120: the metadata shown on the page; any failure shows none.
panel_metadata(ready, table_info, env) ==
    IF ~table_info.ok THEN NoBody
    ELSE LET m == fetch_metadata(ready.db, table_info.value.schema,
                                 table_info.value.table, env.stop = "db_read")
         IN  IF ~m.ok THEN NoBody
             ELSE metadata_fetched(ready, <<>>, table_info.value, m).response.body

\* Line 104 onwards, ready being the outcome of _ensure_vector_ready.
panel_ready(cfg, ready, env) ==
    IF ~ready.ok
    THEN Handled(error_response("panel", ready.err), ready.extras, ready.db,
                 <<"load_resource">> \o ready.trace, ready.run)
    ELSE Handled(Response("panel", 200, "",
                          [enabled |-> asbool(Get(ready.extras, cfg.flag_extra)),
                           metadata |-> panel_metadata(ready, vector_info(ready.extras),
                                                       env)],
                          NoError),
                 ready.extras, ready.db,
                 <<"load_resource">> \o ready.trace \o <<"render">>, ready.run)

\* Lines 103-129: the GET branch.
panel_get(cfg, res, d, env) ==
    LET loaded == load_resource(res, env) IN
    IF ~loaded.ok
    THEN Handled(error_response("panel", loaded.err), res.extras, d,
                 <<"load_resource">>, NoRun)
    ELSE panel_ready(cfg, ensure_vector_ready(cfg, res, d, env), env)

panel(cfg, res, d, env, rq) ==
    IF rq.method = "POST" THEN panel_post(cfg, res, d, env, rq)
    ELSE panel_get(cfg, res, d, env)

(***************************************************************************)
(* Inputs.                                                                 *)
(***************************************************************************)
NoResult == [op |-> "", ok |-> TRUE, err |-> NoError, value |-> <<>>,
             fault |-> FALSE, shape |-> ""]
NoDerived == [step |-> "", name |-> <<>>, again |-> <<>>, accepted |-> FALSE]
NoExtract == [done |-> FALSE, ok |-> FALSE, err |-> NoError, value |-> NoShapefile]
NoSrid == [done |-> FALSE, ok |-> FALSE, err |-> NoError, value |-> 0]
NoConfig == [enabled |-> FALSE, auto_process |-> FALSE, max_features |-> 0,
             schema |-> <<>>, table_prefix |-> <<>>, flag_extra |-> "", max_items |-> 0]
NoResource == [id |-> <<>>, url_type |-> "", format |-> <<>>, url |-> <<>>,
               extras |-> <<>>]

StoreIdle ==
    schemaArg = <<>> /\ tableArg = <<>> /\ sqlLog = <<>> /\ result = NoResult
DeriveIdle == resource_id = <<>> /\ table_prefix = <<>> /\ derived = NoDerived
ArchiveIdle == archive = <<>> /\ listing = <<>> /\ disk = <<>> /\ extracted = NoExtract
SridIdle == content = <<>> /\ pyproj = [state |-> "missing", epsg |-> 0] /\ srid = NoSrid
PairIdle == peers = <<>>
MainIdle ==
    /\ config = NoConfig /\ resource = NoResource /\ response = Idle /\ trace = <<>>
    /\ run = NoRun /\ request = NoRequest

StoreNameChars == {"a", "7", "_", "-", ".", NL}
SchemaInputs == {<<>>, <<"p">>, <<"p", NL>>, <<"7">>, <<"p", "-">>}
OtherTable == <<"o">>
RawName(schema, table) == IF schema # <<>> THEN schema \o <<".">> \o table ELSE table

(***************************************************************************)
(* SpecStore: the sanitizer and the store operations on every schema and   *)
(* table text, given directly or read back from the resource's extras.     *)
(***************************************************************************)
InitStore ==
    /\ schemaArg \in SchemaInputs
    /\ tableArg \in Texts(StoreNameChars, MaxNameLen)
    /\ db = [t \in {RawName(schemaArg, tableArg), OtherTable} |-> Table(1, CanonicalSrid, TRUE)]
    /\ sqlLog = <<>>
    /\ result = NoResult
    /\ DeriveIdle /\ ArchiveIdle /\ SridIdle /\ PairIdle /\ MainIdle

\* The outcome of an operation, with the database failure and the shape of
\* the resource it was run under.
StoreDoneUnder(op, o, fault, shape) ==
    /\ result' = [op |-> op, ok |-> o.ok, err |-> o.err, value |-> o.value,
                  fault |-> fault, shape |-> shape]
    /\ db' = o.db
    /\ sqlLog' = o.sql
    /\ UNCHANGED <<schemaArg, tableArg, deriveVars, archVars, sridVars, pairVars, mainVars>>

StoreDone(op, o) ==
    /\ result' = [op |-> op, ok |-> o.ok, err |-> o.err, value |-> o.value,
                  fault |-> FALSE, shape |-> ""]
    /\ db' = o.db
    /\ sqlLog' = o.sql
    /\ UNCHANGED <<schemaArg, tableArg, deriveVars, archVars, sridVars, pairVars, mainVars>>

Sanitize ==
    StoreDone("sanitize", Outcome(safe_identifier(tableArg, "table"), db, <<>>))

Qualify ==
    StoreDone("qualify", Outcome(build_full_table(schemaArg, tableArg), db, <<>>))

\* Each operation runs with the database up, and with the database failing
\* the statement.
FetchMetadata ==
    \E fault \in BOOLEAN :
        StoreDoneUnder("fetch_metadata", fetch_metadata(db, schemaArg, tableArg, fault),
                       fault, "")

FetchFeatures ==
    \E fault \in BOOLEAN :
        StoreDoneUnder("fetch_features",
                       fetch_features(db, schemaArg, tableArg, 100, 0, fault), fault, "")

EnsureSpatialIndex ==
    \E fault \in BOOLEAN :
        StoreDoneUnder("ensure_spatial_index",
                       ensure_spatial_index(db, schemaArg, tableArg, fault), fault, "")

DropTable ==
    \E fault \in BOOLEAN :
        StoreDoneUnder("drop_table", drop_table(db, schemaArg, tableArg, fault), fault, "")

EnforceSrid ==
    \E fault \in BOOLEAN :
        StoreDoneUnder("enforce_srid",
                       enforce_srid(db, schemaArg, tableArg, CanonicalSrid, fault),
                       fault, "")

TableExists ==
    \E fault \in BOOLEAN :
        StoreDoneUnder("table_exists", table_exists(db, schemaArg, tableArg, fault),
                       fault, "")

\* The extras of a resource whose vector attributes hold the two texts.
ArgExtras == [k \in {"vector_table", "vector_schema"} |->
                 IF k = "vector_table" THEN tableArg ELSE schemaArg]

ResourceShapes == {"object", "mapping"}

BeforeDelete ==
    \E shape \in ResourceShapes, fault \in BOOLEAN :
        StoreDoneUnder("before_delete", before_delete(db, shape, ArgExtras, fault),
                       fault, shape)

DropVectorTable == StoreDone("drop_vector_table", drop_vector_table(db, ArgExtras, FALSE))

NextStore ==
    \/ Sanitize
    \/ Qualify
    \/ FetchMetadata
    \/ FetchFeatures
    \/ EnsureSpatialIndex
    \/ DropTable
    \/ EnforceSrid
    \/ TableExists
    \/ BeforeDelete
    \/ DropVectorTable

SpecStore == InitStore /\ [][NextStore]_vars

(***************************************************************************)
(* SpecDerive: table-name derivation on identifiers up to and beyond the   *)
(* length limit.                                                           *)
(***************************************************************************)
PrefixInputs == {<<>>, VectorPrefix, <<"Z", "_">>, <<"7", "_">>, <<"v", "-">>}

ExampleId == <<"a", "b", "c", "-", "1", "2", "3", "!", "!">>

InitDerive ==
    /\ \/ \E short \in Texts(IdChars, MaxIdLen), n \in 0..MaxPad :
              resource_id = short \o Rep("a", n)
       \/ resource_id = ExampleId
    /\ table_prefix \in PrefixInputs
    /\ derived = NoDerived
    /\ db = <<>>
    /\ StoreIdle /\ ArchiveIdle /\ SridIdle /\ PairIdle /\ MainIdle

Derive ==
    /\ derived.step = ""
    /\ derived' = [derived EXCEPT !.step = "derived",
                                  !.name = build_table_name(resource_id, table_prefix)]
    /\ UNCHANGED <<resource_id, table_prefix, db, storeVars, archVars, sridVars, pairVars, mainVars>>

DeriveAgain ==
    /\ derived.step = "derived"
    /\ derived' = [derived EXCEPT !.step = "rederived",
                                  !.again = build_table_name(derived.name, table_prefix)]
    /\ UNCHANGED <<resource_id, table_prefix, db, storeVars, archVars, sridVars, pairVars, mainVars>>

SanitizeDerived ==
    /\ derived.step = "derived"
    /\ derived' = [derived EXCEPT !.step = "sanitized",
                                  !.accepted = safe_identifier(derived.name, "table").ok]
    /\ UNCHANGED <<resource_id, table_prefix, db, storeVars, archVars, sridVars, pairVars, mainVars>>

NextDerive == Derive \/ DeriveAgain \/ SanitizeDerived

SpecDerive == InitDerive /\ [][NextDerive]_vars

(***************************************************************************)
(* Claims checked under SpecStore and SpecDerive.                          *)
(***************************************************************************)
\* The identifier pattern ^[A-Za-z_][A-Za-z0-9_]*$ read as "the whole text".
MatchesIdentifierPattern(v) ==
    /\ Len(v) >= 1
    /\ v[1] \in IdentStart
    /\ \A i \in 2..Len(v) : v[i] \in IdentBody

Accepted(v) == safe_identifier(v, "identifier").ok

DirectOps == {"fetch_metadata", "fetch_features", "ensure_spatial_index",
              "drop_table", "enforce_srid", "table_exists"}

ArgsRejected(op) ==
    \/ ~Accepted(tableArg)
    \/ schemaArg # <<>> /\ ~Accepted(schemaArg)
    \/ op = "ensure_spatial_index" /\ ~Accepted(tableArg \o GeomGist)

StatementsSanitized(log) ==
    \A i \in 1..Len(log) : \A k \in 1..Len(log[i].idents) :
        LET parts == split_dot(log[i].idents[k]) IN
        Len(parts) <= 2 /\ \A j \in 1..Len(parts) : Accepted(parts[j])

C1_Step ==
    /\ StatementsSanitized(sqlLog')
    /\ sqlLog' = <<>> => db' = db
    /\ (result'.op \in DirectOps /\ ArgsRejected(result'.op))
           => /\ ~result'.ok
              /\ result'.err = ShpToApiError("InvalidIdentifier")
              /\ sqlLog' = <<>>
              /\ db' = db

\* C1: every statement a store operation sends to the database, whether its
\* schema and table were given directly or read back from the resource's
\* extras (before_delete, the panel's drop), names only identifiers the
\* sanitizer accepted (the table, the schema when not empty, the index); an
\* operation given a name the sanitizer rejects raises the invalid-identifier
\* error, sends no statement and leaves the database as it was.
C1_OnlySanitizedNamesReachSql == [][C1_Step]_vars

\* C1 witness: drop_table on an existing table, called with a valid table name
\* and a rejected schema, failed and left the table in place.
C1_Witness ==
    /\ result.op = "drop_table"
    /\ ~result.ok
    /\ result.err = ShpToApiError("InvalidIdentifier")
    /\ Accepted(tableArg)
    /\ schemaArg = <<"p", "-">>
    /\ RawName(schemaArg, tableArg) \in DOMAIN db
    /\ sqlLog = <<>>

\* C2: sanitize accepts a name, and returns it unchanged, exactly when the
\* whole name matches ^[A-Za-z_][A-Za-z0-9_]*$, and rejects every other name
\* with InvalidIdentifier; qualify returns schema.table, or table when the
\* schema is empty, when it accepts the parts.
C2_SanitizeAcceptsExactlyThePattern ==
    /\ result.op = "sanitize"
           => /\ result.ok <=> MatchesIdentifierPattern(tableArg)
              /\ result.ok => result.value = tableArg
              /\ ~result.ok => result.err = ShpToApiError("InvalidIdentifier")
    /\ result.op = "qualify"
           => /\ result.ok <=> /\ MatchesIdentifierPattern(tableArg)
                               /\ schemaArg # <<>> => MatchesIdentifierPattern(schemaArg)
              /\ result.ok => result.value = RawName(schemaArg, tableArg)

HasAlnum(v) == \E i \in 1..Len(v) : IsAlnum(v[i])

C9_Body ==
    /\ Len(derived.name) <= TableNameLimit
    /\ MatchesIdentifierPattern(derived.name)
    /\ derived.step = "sanitized" => derived.accepted

\* C9 as stated: for every resource identifier and every configured prefix the
\* derived name has at most 60 characters and matches the identifier pattern,
\* so the sanitizer accepts it.
C9_DerivedNameAlwaysIdentifier == derived.step # "" => C9_Body

\* C9 amended: the same for every prefix that itself matches the identifier
\* pattern; then "abc-123!!" under "vector_" gives "vector_abc123" and an
\* identifier without alphanumeric characters gives the lower-cased prefix
\* followed by "resource".
C9_DerivedNameIdentifierForValidPrefix ==
    (derived.step # "" /\ MatchesIdentifierPattern(table_prefix))
        => /\ C9_Body
           /\ (resource_id = ExampleId /\ table_prefix = VectorPrefix)
                  => derived.name = VectorPrefix \o <<"a", "b", "c", "1", "2", "3">>
           /\ ~HasAlnum(resource_id)
                  => derived.name = Take(lower(table_prefix) \o ResourceWord, TableNameLimit)

\* C9 witness: an identifier longer than the limit, with an upper-case prefix,
\* was cut to 60 characters and the sanitizer accepted the result.
C9_Witness ==
    /\ derived.step = "sanitized"
    /\ derived.accepted
    /\ table_prefix = <<"Z", "_">>
    /\ Len(resource_id) > TableNameLimit
    /\ Len(derived.name) = TableNameLimit

\* C10 as stated: deriving again from a derived name gives the same name.
C10_DerivationIdempotent == derived.step = "rederived" => derived.again = derived.name

\* C10 amended: with the empty prefix, deriving again from a derived name
\* gives the same name.
C10_IdempotentForEmptyPrefix ==
    (derived.step = "rederived" /\ table_prefix = <<>>) => derived.again = derived.name

\* C10 witness: under the empty prefix an identifier with an upper-case letter
\* and a stripped character was derived and derived again, to the same name.
C10_Witness ==
    /\ derived.step = "rederived"
    /\ table_prefix = <<>>
    /\ resource_id = <<"Z", "-">>
    /\ derived.name = <<"z">>
    /\ derived.again = derived.name

(***************************************************************************)
(* SpecArchive: _extract_and_validate on archives with safe and unsafe     *)
(* entries and on trees that hold complete and incomplete shapefile sets.  *)
(***************************************************************************)
a_shp == <<<<"a">>, EXT_SHP>>
a_shx == <<<<"a">>, EXT_SHX>>
A_SHX == <<<<"A">>, <<"S", "H", "X">>>>
a_dbf == <<<<"a">>, EXT_DBF>>
a_prj == <<<<"a">>, EXT_PRJ>>
B_SHP == <<<<"B">>, <<"S", "H", "P">>>>
HiddenShp == <<<<>>, EXT_SHP>>
SubDir == <<<<"d">>>>
OddName == <<<<>>, <<>>, <<"x">>>>

\* Entry names as a ZIP may hold them: "a.shp", "d/a.shp", "../a.shp",
\* "d/../../a.shp", "/a.shp", "d/../a.shp" and "..x".
ZipEntries ==
    {Entry(FALSE, <<a_shp>>), Entry(FALSE, <<SubDir, a_shp>>),
     Entry(FALSE, <<DotDot, a_shp>>), Entry(FALSE, <<SubDir, DotDot, DotDot, a_shp>>),
     Entry(TRUE, <<a_shp>>), Entry(FALSE, <<SubDir, DotDot, a_shp>>),
     Entry(FALSE, <<OddName>>)}

ZipInputs == Texts(ZipEntries, MaxEntries)

TreeNames == {a_shp, a_shx, A_SHX, a_dbf, a_prj, B_SHP, HiddenShp}
Layouts == {"root", "sub", "split"}

DirFor(layout, name) ==
    IF layout = "root" \/ (layout = "split" /\ endswith_shp(name)) THEN <<>>
    ELSE <<SubDir>>

NameLists ==
    {q \in Texts(TreeNames, MaxFiles) :
        \A i, j \in 1..Len(q) : i # j => q[i] # q[j]}

TreeInputs ==
    {[i \in 1..Len(q) |-> Entry(FALSE, Append(DirFor(l, q[i]), q[i]))] :
        q \in NameLists, l \in Layouts}

InitArchive ==
    /\ archive \in ZipInputs \cup TreeInputs
    /\ listing = <<>>
    /\ disk = <<>>
    /\ extracted = NoExtract
    /\ db = <<>>
    /\ StoreIdle /\ DeriveIdle /\ SridIdle /\ PairIdle /\ MainIdle

Extract ==
    /\ ~extracted.done
    /\ LET r == extract_and_validate(archive, ScratchDir) IN
       /\ extracted' = [done |-> TRUE, ok |-> r.ok, err |-> r.err, value |-> r.value]
       /\ disk' = r.files
       /\ listing' = os_walk(ScratchDir, r.files)
    /\ UNCHANGED <<archive, db, storeVars, deriveVars, sridVars, pairVars, mainVars>>

NextArchive == Extract

SpecArchive == InitArchive /\ [][NextArchive]_vars

\* An entry leaves the extraction root when it is absolute or when, read
\* component by component, it climbs above the directory it started in.
RECURSIVE Climbs(_, _)
Climbs(parts, depth) ==
    IF parts = <<>> THEN FALSE
    ELSE LET c == Head(parts)
             below == IF c = DotDot THEN depth - 1
                      ELSE IF c = Dot \/ c = EmptyComponent THEN depth
                      ELSE depth + 1
         IN  below < 0 \/ Climbs(Tail(parts), below)

LeavesRoot(e) == e.abs \/ Climbs(e.parts, 0)

InsideScratchDir(f) ==
    /\ IsPrefix(ScratchDir, f)
    /\ \A i \in 1..Len(f) : f[i] # DotDot

\* C3: when an entry of the archive leaves the extraction root, the call
\* fails with UnsafeArchiveEntry and the scratch directory holds no file, not
\* even for the safe entries listed before the unsafe one; every file ever
\* written lies inside the scratch directory.
C3_UnsafeArchiveWritesNothing ==
    extracted.done =>
        /\ (\E i \in 1..Len(archive) : LeavesRoot(archive[i])) =>
               /\ ~extracted.ok
               /\ extracted.err = ShpToApiError("UnsafeArchiveEntry")
               /\ disk = <<>>
        /\ \A i \in 1..Len(disk) : InsideScratchDir(disk[i])

C3_Witness ==
    /\ extracted.done
    /\ Len(archive) >= 2
    /\ ~LeavesRoot(archive[1])
    /\ LeavesRoot(archive[2])
    /\ extracted.err = ShpToApiError("UnsafeArchiveEntry")
    /\ disk = <<>>

\* A file has an extension when its name splits into a stem that is not made
\* of dots only and a last part; two names share a base when their stems are
\* equal without regard to case.
HasExtension(f, ext) ==
    /\ Len(NameOf(f)) >= 2
    /\ \E i \in 1..(Len(NameOf(f)) - 1) : NameOf(f)[i] # <<>>
    /\ lower(NameOf(f)[Len(NameOf(f))]) = ext

StemOf(f) == lower_name(SubSeq(NameOf(f), 1, Len(NameOf(f)) - 1))

FilesOnDisk == {disk[i] : i \in 1..Len(disk)}

IsCompleteSet(s) ==
    /\ HasExtension(s.shp, EXT_SHP) /\ HasExtension(s.shx, EXT_SHX)
    /\ HasExtension(s.dbf, EXT_DBF) /\ HasExtension(s.prj, EXT_PRJ)
    /\ DirOf(s.shx) = DirOf(s.shp) /\ DirOf(s.dbf) = DirOf(s.shp)
    /\ DirOf(s.prj) = DirOf(s.shp)
    /\ StemOf(s.shx) = StemOf(s.shp) /\ StemOf(s.dbf) = StemOf(s.shp)
    /\ StemOf(s.prj) = StemOf(s.shp)

CompleteSets ==
    {s \in [found : {TRUE}, shp : FilesOnDisk, shx : FilesOnDisk,
            dbf : FilesOnDisk, prj : FilesOnDisk] : IsCompleteSet(s)}

\* C4: for an archive that passed the path check, the call succeeds exactly
\* when some directory of the extracted tree holds a .shp, a .shx, a .dbf and
\* a .prj file of one base name (case ignored); the four paths returned are
\* such a set of files on disk, so the only complete set is the one returned,
\* and without a complete set the call fails with IncompleteShapefile.
C4_SucceedsIffCompleteSet ==
    (extracted.done /\ extracted.err # ShpToApiError("UnsafeArchiveEntry")) =>
        /\ extracted.ok <=> CompleteSets # {}
        /\ extracted.ok => extracted.value \in CompleteSets
        /\ ~extracted.ok => extracted.err = ShpToApiError("IncompleteShapefile")

C4_Witness ==
    /\ extracted.ok
    /\ NameOf(archive[1].parts) = B_SHP
    /\ NameOf(extracted.value.shx) = A_SHX
    /\ DirOf(extracted.value.shp) = Append(ScratchDir, SubDir)
    /\ Cardinality(CompleteSets) = 1

(***************************************************************************)
(* SpecSrid: _detect_srid on projection texts put together from WKT tokens.*)
(***************************************************************************)
TokAuthority ==
    <<"A", "U", "T", "H", "O", "R", "I", "T", "Y", "[", Quote,
      "E", "P", "S", "G", Quote, ",", Quote>>
TokAuthorityLower == lower(TokAuthority)
TokCode == <<"3", "8", "5", "7">>
TokClose == <<Quote, "]">>
TokBackslashed == <<"A", "U", "T", "H", "O", "R", "I", "T", "Y", BackSlash>>
TokEpsg == <<"E", "P", "S", "G">>
TokProjcs == <<"P", "R", "O", "J", "C", "S", "[">>
PrjTokens == {TokAuthority, TokAuthorityLower, TokCode, TokClose, TokBackslashed,
              TokEpsg, TokProjcs}

RECURSIVE Flatten(_)
Flatten(parts) == IF parts = <<>> THEN <<>> ELSE Head(parts) \o Flatten(Tail(parts))

PyprojInputs ==
    {[state |-> "missing", epsg |-> 0], [state |-> "raises", epsg |-> 0],
     [state |-> "ok", epsg |-> 0], [state |-> "ok", epsg |-> 3857],
     [state |-> "ok", epsg |-> CanonicalSrid]}

InitSrid ==
    /\ \E parts \in Texts(PrjTokens, MaxTokens) : content = Flatten(parts)
    /\ pyproj \in PyprojInputs
    /\ srid = NoSrid
    /\ db = <<>>
    /\ StoreIdle /\ DeriveIdle /\ ArchiveIdle /\ PairIdle /\ MainIdle

DetectSrid ==
    /\ ~srid.done
    /\ LET r == detect_srid(content, pyproj) IN
       srid' = [done |-> TRUE, ok |-> r.ok, err |-> r.err, value |-> r.value]
    /\ UNCHANGED <<content, pyproj, db, storeVars, deriveVars, archVars, mainVars,
                   pairVars>>

NextSrid == DetectSrid

SpecSrid == InitSrid /\ [][NextSrid]_vars

\* The token AUTHORITY["EPSG","<digits>"] at position i of a text, case ignored.
RECURSIVE DigitRun(_, _)
DigitRun(text, i) ==
    IF i <= Len(text) /\ text[i] \in Digits THEN 1 + DigitRun(text, i + 1) ELSE 0

AuthorityTokenAt(text, i) ==
    /\ i + 17 <= Len(text)
    /\ lower(SubSeq(text, i, i + 17)) = TokAuthorityLower
    /\ LET n == DigitRun(text, i + 18) IN
       /\ n >= 1
       /\ i + 19 + n <= Len(text)
       /\ text[i + 18 + n] = Quote
       /\ text[i + 19 + n] = "]"

DigitSeq == <<"0", "1", "2", "3", "4", "5", "6", "7", "8", "9">>

RECURSIVE DecimalValue(_)
DecimalValue(digits) ==
    IF digits = <<>> THEN 0
    ELSE 10 * DecimalValue(SubSeq(digits, 1, Len(digits) - 1))
         + (CHOOSE v \in 0..9 : DigitSeq[v + 1] = digits[Len(digits)])

AuthorityCode(text) ==
    LET i == CHOOSE k \in 1..Len(text) :
                 /\ AuthorityTokenAt(text, k)
                 /\ \A j \in 1..(k - 1) : ~AuthorityTokenAt(text, j)
    IN  DecimalValue(SubSeq(text, i + 18, i + 17 + DigitRun(text, i + 18)))

\* C5: for a projection text that holds a token AUTHORITY["EPSG","<digits>"],
\* in any case, _detect_srid returns the number the token holds, whatever the
\* fallback library does.
C5_AuthorityTokenGivesItsCode ==
    (srid.done /\ \E i \in 1..Len(content) : AuthorityTokenAt(content, i)) =>
        /\ srid.ok
        /\ srid.value = AuthorityCode(content)

(***************************************************************************)
(* Spec: one resource through its life: the hooks run the ingestion when   *)
(* the resource is saved, the metadata route reads it, and the table may   *)
(* be dropped behind the extension's back.  Each request meets one         *)
(* environment: the step that fails, if any, and the two feature counts.   *)
(***************************************************************************)
EarlyStops == {"file", "size", "dsn", "unsafe", "incomplete", "crs", "crs_unexpected",
               "denied", "notfound", "db_exists", "loader_missing", "load_fail",
               "load_fail_dropped"}
MidStops == {"db_enforce", "db_index", "db_fetch"}

\* The failures before the load do not depend on the counts, and those between
\* the load and the measurement do not depend on the count before the load.
Envs ==
    {[stop |-> s, pre |-> -1, post |-> 0] : s \in EarlyStops}
    \cup {[stop |-> s, pre |-> -1, post |-> 1] : s \in MidStops}
    \cup {[stop |-> s, pre |-> -1, post |-> q] :
             s \in {"db_drop", "patch", "db_read"}, q \in 0..MaxCount}
    \cup {[stop |-> "none", pre |-> p, post |-> q] : p \in -1..MaxCount, q \in 0..MaxCount}

\* Nothing fails and the loader delivers MaxCount features.
NoFault == [stop |-> "none", pre |-> -1, post |-> MaxCount]

\* ckanext.shptoapi.max_items as configured: below and at the largest table.
MaxItemsInputs == {1, MaxCount}

\* The failures of the two writes the panel makes to the attributes.
PanelEnvs ==
    Envs \cup {[stop |-> s, pre |-> -1, post |-> 1] : s \in {"flag_patch", "clear_patch"}}

PanelRequest(method, action, may) ==
    [method |-> method, action |-> action, limit |-> Absent, offset |-> Absent,
     bbox |-> Absent, may_update |-> may]

\* The failures a disable can meet: its two writes and its drop.
DisableEnvs ==
    {NoFault} \cup {e \in PanelEnvs : e.stop \in {"flag_patch", "clear_patch", "db_drop"}}

\* The requests whose outcome no failure changes: a POST by a user who may
\* not update the resource, and a POST with an unknown action.
PlainPosts ==
    {PanelRequest("POST", a, FALSE) : a \in {"enable", "disable", "other"}}
    \cup {PanelRequest("POST", "other", TRUE)}

PageRequest(l, o, b) ==
    [method |-> "GET", action |-> "", limit |-> l, offset |-> o, bbox |-> b,
     may_update |-> FALSE]

LimitInputs ==
    {Absent} \cup
    {Given(t) : t \in {<<>>, <<"x">>, <<"0">>, <<"1">>, <<"2">>, <<"9">>, <<"-", "1">>,
                       <<"+", "1">>, <<" ", "2">>, <<"1", "_", "0">>, <<"2", "x">>}}
OffsetInputs == {Absent} \cup {Given(t) : t \in {<<"x">>, <<"1">>, <<"-", "1">>}}

PageRequests ==
    {PageRequest(l, Absent, Absent) : l \in LimitInputs}
    \cup {PageRequest(l, o, Absent) : l \in {Absent, Given(<<"1">>)}, o \in OffsetInputs}
    \cup {PageRequest(Absent, Absent, Given(<<"x">>))}

ResId == <<"r", "-", "1">>
F_SHP == <<"S", "H", "P">>
F_csv == <<"c", "s", "v">>
U_zip == <<"f", ".", "Z", "I", "P">>
U_csv == <<"f", ".", "c", "s", "v">>
FlagKey == "vector_enabled"
HostExtras == [k \in {"note"} |-> <<"x">>]
FlagInputs == {T_On, T_false}

ResourceKinds ==
    {[url_type |-> "upload", format |-> F_SHP, url |-> U_csv],
     [url_type |-> "upload", format |-> F_csv, url |-> U_zip],
     [url_type |-> "upload", format |-> F_csv, url |-> U_csv],
     [url_type |-> "link", format |-> F_SHP, url |-> U_zip]}

Init ==
    /\ config \in {[enabled |-> e, auto_process |-> a, max_features |-> m,
                    schema |-> T_public, table_prefix |-> VectorPrefix,
                    flag_extra |-> FlagKey, max_items |-> x] :
                       e \in BOOLEAN, a \in BOOLEAN, m \in 0..(MaxCount - 1),
                       x \in MaxItemsInputs}
    /\ \E k \in ResourceKinds, x \in {HostExtras} \cup
                                      {Put(HostExtras, FlagKey, f) : f \in FlagInputs} :
           resource = [id |-> ResId, url_type |-> k.url_type, format |-> k.format,
                       url |-> k.url, extras |-> x]
    /\ db = <<>>
    /\ response = Idle
    /\ trace = <<>>
    /\ run = NoRun /\ request = NoRequest
    /\ StoreIdle /\ DeriveIdle /\ ArchiveIdle /\ SridIdle /\ PairIdle

\* What a handler leaves behind: the attributes it patched, the store, its
\* response and the statement it sent for the page, if it sent one.
Served(h) ==
    /\ resource' = [resource EXCEPT !.extras = h.extras]
    /\ db' = h.db
    /\ response' = h.response
    /\ trace' = h.trace
    /\ run' = h.run
    /\ sqlLog' = IF "sql" \in DOMAIN h THEN h.sql ELSE <<>>
    /\ UNCHANGED <<config, schemaArg, tableArg, result, deriveVars, archVars, sridVars, pairVars>>

Apply(h) ==
    /\ request' = NoRequest
    /\ Served(h)

\* A request with parameters of its own is served.
Serve(rq, h) ==
    /\ request' = rq
    /\ Served(h)

\* plugin.py after_create: the resource was just saved.
AfterCreate ==
    /\ response = Idle
    /\ \E env \in Envs : Apply(plugin_process("after_create", config, resource, db, env))

\* plugin.py after_update: the host saved an edit of the resource, here of its
\* flag attribute, and then calls the hook.
AfterUpdate ==
    /\ response = Idle
    /\ \E env \in Envs, f \in FlagInputs :
           Apply(plugin_process("after_update", config,
                                [resource EXCEPT !.extras = Put(@, FlagKey, f)], db, env))

\* routes.py: GET /vector/<resource_id>/metadata
Metadata ==
    /\ response = Idle
    /\ \E env \in Envs : Apply(metadata(config, resource, db, env))

\* routes.py: GET /vector/<resource_id>/items?limit=..&offset=..&bbox=..
\* The parameters vary while nothing else fails; one plain request runs
\* under every fault.
Items ==
    /\ response = Idle
    /\ \/ \E rq \in PageRequests : Serve(rq, items(config, resource, db, NoFault, rq))
       \/ \E env \in Envs :
              Serve(PageRequest(Absent, Absent, Absent),
                    items(config, resource, db, env, PageRequest(Absent, Absent, Absent)))

\* routes.py: GET and POST /vector/<resource_id>/panel
Panel ==
    /\ response = Idle
    /\ \/ \E env \in Envs :
              Serve(PanelRequest("GET", "", FALSE),
                    panel(config, resource, db, env, PanelRequest("GET", "", FALSE)))
       \/ \E env \in PanelEnvs :
              Serve(PanelRequest("POST", "enable", TRUE),
                    panel(config, resource, db, env, PanelRequest("POST", "enable", TRUE)))
       \/ \E env \in DisableEnvs :
              Serve(PanelRequest("POST", "disable", TRUE),
                    panel(config, resource, db, env, PanelRequest("POST", "disable", TRUE)))
       \/ \E rq \in PlainPosts : Serve(rq, panel(config, resource, db, NoFault, rq))

\* Somebody drops the tables without telling the extension.
OutOfBandDrop ==
    /\ response = Idle
    /\ db # <<>>
    /\ db' = <<>>
    /\ UNCHANGED <<config, resource, response, trace, run, request,
                   storeVars, deriveVars, archVars, sridVars, pairVars>>

\* The caller takes the response; the next request may start.
Deliver ==
    /\ response # Idle
    /\ response' = Idle
    /\ trace' = <<>>
    /\ run' = NoRun
    /\ request' = NoRequest
    /\ sqlLog' = <<>>
    /\ UNCHANGED <<config, resource, db, schemaArg, tableArg, result,
                   deriveVars, archVars, sridVars, pairVars>>

Next ==
    \/ AfterCreate
    \/ AfterUpdate
    \/ Metadata
    \/ Items
    \/ Panel
    \/ OutOfBandDrop
    \/ Deliver

Spec == Init /\ [][Next]_vars

\* What the claims say of a request, in their own words.
DeclaredShapefile(res) ==
    \E alias \in {<<"s", "h", "p">>, <<"s", "h", "a", "p", "e", "f", "i", "l", "e">>,
                  <<"z", "i", "p">>} : lower(res.format) = alias

NamedZip(res) ==
    /\ Len(res.url) >= 4
    /\ lower(SubSeq(res.url, Len(res.url) - 3, Len(res.url))) = <<".", "z", "i", "p">>

FlagTruthy(res) ==
    /\ FlagKey \in DOMAIN res.extras
    /\ lower(res.extras[FlagKey]) \in {<<"t", "r", "u", "e">>, <<"1">>,
                                       <<"y", "e", "s">>, <<"o", "n">>}

Eligible(cfg, res) ==
    /\ cfg.enabled
    /\ res.url_type = "upload"
    /\ DeclaredShapefile(res) \/ NamedZip(res)
    /\ cfg.auto_process \/ FlagTruthy(res)

PipelineSteps ==
    {"get_file_path", "validate_size", "build_pg_dsn", "mkdtemp", "extract",
     "detect_srid", "feature_count", "load", "enforce_srid", "ensure_spatial_index",
     "drop_table", "update_extras", "rmtree"}

ExceptFlag(extras) == [k \in DOMAIN extras \ {FlagKey} |-> extras[k]]

VectorAttrs(extras) == [k \in DOMAIN extras \cap VectorKeys |-> extras[k]]

RequestStarts == response = Idle /\ response' # Idle

C6_Step ==
    (RequestStarts /\ run'.called) =>
        /\ run'.skipped <=> ~Eligible(config, resource')
        /\ run'.skipped =>
               /\ run'.ok
               /\ run'.err = NoError
               /\ run'.value = NoMetadata
               /\ \A i \in 1..Len(trace') : trace'[i] \notin PipelineSteps
               /\ db' = db
               /\ ExceptFlag(resource'.extras) = ExceptFlag(resource.extras)

\* C6: an ingestion call is skipped exactly when the feature is off, or the
\* resource is not an upload, or it is neither declared shp/shapefile/zip nor
\* named *.zip, or auto-processing is off and the flag is not truthy; a
\* skipped call returns no metadata, raises nothing, performs no step of the
\* pipeline and leaves the tables and the attributes as they were.
C6_SkippedIffNotEligible == [][C6_Step]_vars

C6_Witness ==
    /\ run.called /\ run.skipped
    /\ response.handler = "after_update"
    /\ config.enabled /\ ~config.auto_process
    /\ resource.url_type = "upload" /\ resource.format = F_SHP
    /\ Get(resource.extras, FlagKey) = T_false
    /\ Get(resource.extras, "vector_table") # <<>>
    /\ db # <<>>

LoadedTable ==
    build_full_table(config.schema, build_table_name(resource.id, config.table_prefix)).value

DatabaseFailed(err) == err.cause = "OperationalError"

C7_Step ==
    (RequestStarts /\ run'.measured > config.max_features /\ ~DatabaseFailed(run'.err)) =>
        /\ run'.err = ShpToApiError("FeatureLimitExceeded")
        /\ ~run'.ok
        /\ LoadedTable \notin DOMAIN db'
        /\ table_exists(db', config.schema,
                        build_table_name(resource.id, config.table_prefix), FALSE).value = FALSE
        /\ VectorAttrs(resource'.extras) = VectorAttrs(resource.extras)

RecordedTableMissing ==
    \/ Get(resource.extras, "vector_table") = <<>>
    \/ Get(resource.extras, "vector_table") \notin DOMAIN db

IndexOf(tr, step) == CHOOSE i \in 1..Len(tr) : tr[i] = step /\ \A j \in 1..(i - 1) : tr[j] # step

C8_Step ==
    (/\ RequestStarts
     /\ response'.handler = "metadata"
     /\ response'.status \notin {403, 404}
     /\ ~DatabaseFailed(response'.raised)
     /\ config.enabled
     /\ FlagTruthy(resource)) =>
        IF RecordedTableMissing
        THEN /\ run'.called
             /\ run'.skipped <=> ~Eligible(config, resource)
             /\ trace'[Len(trace')] = "fetch_metadata" =>
                    /\ \E i \in 1..Len(trace') : trace'[i] = "process_resource"
                    /\ IndexOf(trace', "process_resource") < Len(trace') - 1
                    /\ trace'[Len(trace') - 1] = "load_resource"
             /\ (run'.ok /\ ~run'.skipped) =>
                    /\ response'.status = 200
                    /\ response'.body.vector_table = Get(resource'.extras, "vector_table")
                    /\ response'.body.vector_table \in DOMAIN db'
        ELSE /\ ~run'.called
             /\ db' = db
             /\ resource' = resource

Min(a, b) == IF a < b THEN a ELSE b

ReadsAsInteger(raw) == raw.given /\ int_parse(raw.text).ok

RequestedLimit == IF ReadsAsInteger(request.limit) THEN int_parse(request.limit.text).value
                  ELSE 100

RequestedOffset == IF ReadsAsInteger(request.offset) THEN int_parse(request.offset.text).value
                   ELSE 0

PageAsked == response.handler = "items" /\ sqlLog # <<>>

C11_LimitClampedToMaxItems ==
    response.handler = "items" =>
        /\ response.raised.cls # "ValueError"
        /\ response.status = 200 =>
               /\ PageAsked
               /\ response.body.features <= config.max_items
        /\ PageAsked =>
               /\ Len(sqlLog) = 1
               /\ sqlLog[1].params =
                      <<Min(RequestedLimit, config.max_items), RequestedOffset>>
               /\ sqlLog[1].params[1] <= config.max_items
               /\ (/\ ~ReadsAsInteger(request.limit) \/ RequestedLimit >= 0
                   /\ ~ReadsAsInteger(request.offset) \/ RequestedOffset >= 0
                   /\ sqlLog[1].idents[1] \in DOMAIN db
                   /\ ~DatabaseFailed(response.raised)) => response.status = 200

\* A limit that is no integer falls back to 100, is cut to max_items, and a
\* table larger than that answers with a full page.
C11_Witness ==
    /\ PageAsked
    /\ request.limit.given /\ ~ReadsAsInteger(request.limit)
    /\ response.status = 200
    /\ sqlLog[1].params[1] = config.max_items
    /\ response.body.features = config.max_items
    /\ \E t \in DOMAIN db : db[t].count > config.max_items

(***************************************************************************)
(* C12.  Every metadata, items and panel request ends with a response; no  *)
(* error leaves the handler.  NotAuthorized gives 403, ObjectNotFound 404, *)
(* a domain error 400 with its message as the error, and every other       *)
(* error, a raw database error of the lazy re-ingestion or of the          *)
(* table-exists check included, gives 500 with the fixed error "Internal   *)
(* error" and nothing of the underlying error.                             *)
(***************************************************************************)
FacadeHandlers == {"metadata", "items", "panel"}

C12_EveryErrorBecomesAResponse ==
    response.handler \in FacadeHandlers =>
        /\ response.status \in {200, 302, 400, 403, 404, 500}
        /\ response.raised = NoError <=> response.status \in {200, 302}
        /\ response.raised = NoError => response.error = ""
        /\ response.raised.cls = "NotAuthorized" => response.status = 403
        /\ response.raised.cls = "ObjectNotFound" => response.status = 404
        /\ response.raised.cls = "ShpToApiError" =>
               /\ response.status = 400
               /\ response.error = response.raised.kind
        /\ response.raised.cls \notin {"", "NotAuthorized", "ObjectNotFound", "ShpToApiError"} =>
               /\ response.status = 500
               /\ response.error = "Internal error"
        /\ response.status >= 400 => response.body = NoBody

\* The database fails inside the re-ingestion a read started.
C12_Witness ==
    /\ response.handler \in {"metadata", "items"}
    /\ response.raised.cls = "SQLAlchemyError"
    /\ response.status = 500
    /\ response.error = "Internal error"
    /\ run.called /\ ~run.ok
    /\ \E i \in 1..Len(trace) : trace[i] = "process_resource"

(***************************************************************************)
(* C13.  No panel POST mutates anything unless the host has first granted  *)
(* the requesting user resource_update on the resource: a flag change, an  *)
(* ingestion, a table drop and a clearing of the vector attributes all     *)
(* come after the passed check.  When the check fails the response is 403  *)
(* and flag, attributes and tables are as they were.                       *)
(***************************************************************************)
MutatingSteps == {"set_resource_flag", "process_resource", "drop_vector_table",
                  "clear_vector_metadata", "load_to_postgis", "drop_table",
                  "update_extras"}

PanelPost == RequestStarts /\ response'.handler = "panel" /\ request'.method = "POST"

C13_Step ==
    PanelPost =>
        /\ trace'[1] = "load_resource"
        /\ (\/ resource' # resource
            \/ db' # db
            \/ run'.called
            \/ \E i \in 1..Len(trace') : trace'[i] \in MutatingSteps) =>
               /\ request'.may_update
               /\ \A i \in 1..Len(trace') : trace'[i] \in MutatingSteps => i > 1
        /\ ~request'.may_update =>
               /\ response'.status = 403
               /\ response'.raised = NotAuthorized
               /\ resource' = resource
               /\ db' = db
               /\ trace' = <<"load_resource">>

C13_NoPanelMutationWithoutUpdateAccess == [][C13_Step]_vars

\* A user without update access asks to disable a resource whose table is
\* recorded and present, and is refused.
C13_Witness ==
    /\ response.handler = "panel"
    /\ request.method = "POST" /\ request.action = "disable"
    /\ ~request.may_update
    /\ response.status = 403
    /\ Get(resource.extras, "vector_table") \in DOMAIN db
    /\ asbool(Get(resource.extras, FlagKey))

(***************************************************************************)
(* C14.  In the on-create and on-update hooks every failure of the         *)
(* ingestion, a domain error or an unexpected one, is raised to the host   *)
(* as a validation failure that carries the text of the error; none is     *)
(* swallowed.  When the ingestion is skipped or succeeds the hook returns  *)
(* normally.                                                               *)
(***************************************************************************)
WriteHooks == {"after_create", "after_update"}

C14_HookFailuresReachTheHost ==
    response.handler \in WriteHooks =>
        /\ run.called
        /\ ~run.ok =>
               /\ run.err # NoError
               /\ response.raised.cls = "ValidationError"
               /\ response.raised.kind = run.err.kind
               /\ response.raised.cause = run.err.cause
        /\ run.ok => response.raised = NoError
        /\ run.skipped => run.ok

\* The database refuses a statement of the run: an error that is no domain
\* error reaches the host as a validation failure.
C14_Witness ==
    /\ response.handler \in WriteHooks
    /\ ~run.ok
    /\ run.err.cls = "SQLAlchemyError"
    /\ response.raised = ValidationError(run.err)

(***************************************************************************)
(* C15.  On deletion the before-delete hook drops the table recorded in    *)
(* the resource's attributes if and only if the attributes record one, and *)
(* it never raises: a failure while reading the attributes or dropping     *)
(* the table is logged and the deletion proceeds.  Read here for a         *)
(* recorded name the sanitizer accepts and a database that executes the    *)
(* DROP: then the recorded table is gone after the hook.                   *)
(***************************************************************************)
RecordsTable == tableArg # <<>>

RecordedNameValid ==
    /\ Accepted(tableArg)
    /\ schemaArg # <<>> => Accepted(schemaArg)

C15_DeleteDropsRecordedTable ==
    result.op = "before_delete" =>
        /\ result.ok
        /\ ~RecordsTable => sqlLog = <<>>
        /\ (RecordsTable /\ RecordedNameValid /\ ~result.fault) =>
               /\ sqlLog = <<Stmt("DROP TABLE", <<RawName(schemaArg, tableArg)>>, <<>>)>>
               /\ RawName(schemaArg, tableArg) \notin DOMAIN db

(***************************************************************************)
(* C16.  Every ingestion run that created a scratch directory removes it   *)
(* when the run ends, on every exit path: success, unsafe or incomplete    *)
(* archive, unknown CRS, feature limit before the load, loader missing,    *)
(* load failure, database error of enforcement, index or metadata, feature *)
(* limit after the load, failure while persisting the attributes.  In the  *)
(* steps of a handler each creation is followed by a removal, with only    *)
(* steps of the with-block between them, and nothing of the run after it.  *)
(***************************************************************************)
ScratchSteps == {"extract", "detect_srid", "feature_count", "load", "enforce_srid",
                 "ensure_spatial_index", "fetch_metadata", "drop_table",
                 "update_extras"}

RunSteps == ScratchSteps \cup {"should_process", "get_file_path", "validate_size",
                               "build_pg_dsn", "mkdtemp"}

Removal(i) ==
    CHOOSE j \in (i + 1)..(Len(trace) + 1) :
        /\ j = Len(trace) + 1 \/ trace[j] \notin ScratchSteps
        /\ \A k \in (i + 1)..(j - 1) : trace[k] \in ScratchSteps

C16_ScratchDirectoryAlwaysRemoved ==
    /\ run.called /\ ~run.skipped /\ run.err.kind \notin {"FileMissing", "SizeLimitExceeded",
                                                          "NoConnectionString"}
           => \E i \in 1..Len(trace) : trace[i] = "mkdtemp"
    /\ \A i \in 1..Len(trace) :
           trace[i] = "mkdtemp" =>
               /\ Removal(i) <= Len(trace)
               /\ trace[Removal(i)] = "rmtree"
               /\ Removal(i) < Len(trace) => trace[Removal(i) + 1] \notin RunSteps

\* The attributes could not be persisted: the run fails at its last step and
\* the directory is removed.
C16_Witness ==
    /\ run.called /\ ~run.ok
    /\ run.err = HostError
    /\ \E i \in 1..Len(trace) :
           /\ trace[i] = "mkdtemp"
           /\ trace[Removal(i) - 1] = "update_extras"
           /\ trace[Removal(i)] = "rmtree"

(***************************************************************************)
(* C17.  A successful ingestion rewrites exactly the vector attributes of  *)
(* the resource (vector_table, vector_schema, srid, bbox, geom_type,       *)
(* feature_count) and leaves the rest of the mapping as it was: the flag   *)
(* keeps the value it had before the run, absent if it was absent, and     *)
(* every key of the host keeps its value.  The write hook on update and    *)
(* the panel's enable start their run after the flag was written, so for   *)
(* them the flag is compared with the truthy value the run found.          *)
(***************************************************************************)
Ingested == RequestStarts /\ run'.called /\ run'.ok /\ ~run'.skipped

FlagWrittenBeforeRun ==
    \/ response'.handler = "after_update"
    \/ response'.handler = "panel" /\ request'.method = "POST"

C17_Step ==
    Ingested =>
        /\ DOMAIN resource'.extras = DOMAIN resource.extras \cup VectorKeys
               \cup (IF FlagWrittenBeforeRun THEN {FlagKey} ELSE {})
        /\ \A k \in DOMAIN resource.extras \ (VectorKeys \cup {FlagKey}) :
               resource'.extras[k] = resource.extras[k]
        /\ ~FlagWrittenBeforeRun =>
               /\ FlagKey \in DOMAIN resource'.extras <=> FlagKey \in DOMAIN resource.extras
               /\ Get(resource'.extras, FlagKey) = Get(resource.extras, FlagKey)
        /\ FlagWrittenBeforeRun =>
               \/ FlagTruthy(resource')
               \/ config.auto_process /\ resource'.extras[FlagKey] = T_false
        /\ resource'.extras["vector_table"] = run'.value.vector_table
        /\ resource'.extras["vector_schema"] = run'.value.vector_schema
        /\ resource'.extras["bbox"] = run'.value.bbox
        /\ resource'.extras["geom_type"] = run'.value.geom_type
        /\ resource'.extras["srid"] = str_or_empty(run'.value.srid)
        /\ resource'.extras["feature_count"] = str_or_empty(run'.value.feature_count)
        /\ \A k \in {"id", "url_type", "format", "url"} : resource'[k] = resource[k]

C17_OnlyVectorAttributesRewritten == [][C17_Step]_vars

\* A resource without the flag, ingested on create: the six attributes are
\* there, the host's key is as it was and the flag is still absent.
C17_Witness ==
    /\ response.handler = "after_create"
    /\ run.called /\ run.ok /\ ~run.skipped
    /\ VectorKeys \subseteq DOMAIN resource.extras
    /\ resource.extras["vector_table"] = LoadedTable
    /\ resource.extras["note"] = HostExtras["note"]
    /\ FlagKey \notin DOMAIN resource.extras

(***************************************************************************)
(* C18.  Each of the six store operations (fetch_metadata, fetch_features, *)
(* ensure_spatial_index, drop_table, enforce_srid, table_exists) turns any *)
(* error of the database into the domain error SpatialStoreError wrapping  *)
(* the text of the original; no raw database error leaves the operation.   *)
(***************************************************************************)
C18_StoreOperationsWrapDatabaseErrors ==
    result.op \in DirectOps =>
        /\ ~result.ok => result.err.cls = "ShpToApiError"
        /\ (result.fault /\ ~ArgsRejected(result.op)) =>
               /\ ~result.ok
               /\ result.err = StoreError("OperationalError")

(***************************************************************************)
(* SpecPair: two resources with different identifiers are ingested at the  *)
(* same time under one configuration and share the store.  Resource i      *)
(* uploads a shapefile of i features.  The load and the rest of the run    *)
(* are separate steps, so the runs interleave.                             *)
(***************************************************************************)
PairIds == {<<"a", "b">>, <<"a", "-", "b">>, <<"A", "b">>, <<"b">>}
Peers == {1, 2}

PeerEnv(i) == [stop |-> "none", pre |-> -1, post |-> i]

PeerResource(i) ==
    [id |-> peers[i].id, url_type |-> "upload", format |-> F_SHP, url |-> U_zip,
     extras |-> peers[i].extras]

PeerTable(i) == build_table_name(peers[i].id, config.table_prefix)

InitPair ==
    /\ config \in {[enabled |-> TRUE, auto_process |-> TRUE, max_features |-> m,
                    schema |-> T_public, table_prefix |-> p,
                    flag_extra |-> FlagKey, max_items |-> 1] :
                       m \in 1..MaxCount, p \in {VectorPrefix, <<>>}}
    /\ \E a \in PairIds, b \in PairIds :
           /\ a # b
           /\ peers = [i \in Peers |->
                          [id |-> IF i = 1 THEN a ELSE b, step |-> "idle",
                           extras |-> HostExtras]]
    /\ db = <<>>
    /\ resource = NoResource /\ response = Idle /\ trace = <<>>
    /\ run = NoRun /\ request = NoRequest
    /\ StoreIdle /\ DeriveIdle /\ ArchiveIdle /\ SridIdle

\* logic.py line 49: ogr2ogr writes, or overwrites, the table of the resource.
PeerLoad(i) ==
    /\ peers[i].step = "idle"
    /\ LET l == load_to_postgis(db, config.schema, PeerTable(i), PeerEnv(i)) IN
       /\ db' = l.db
       /\ peers' = [peers EXCEPT ![i].step = IF l.ok THEN "loaded" ELSE "failed"]
    /\ UNCHANGED <<storeVars, deriveVars, archVars, sridVars, mainVars>>

\* logic.py lines 56-75: enforcement, index, measurement, limit, persistence.
PeerComplete(i) ==
    /\ peers[i].step = "loaded"
    /\ LET r == after_load(config, PeerResource(i), PeerEnv(i), PeerTable(i), <<>>,
                           Outcome(Return(<<>>), db, <<>>))
       IN  /\ db' = r.db
           /\ peers' = [peers EXCEPT ![i].step = IF r.ok THEN "done" ELSE "failed",
                                     ![i].extras = r.extras]
    /\ UNCHANGED <<storeVars, deriveVars, archVars, sridVars, mainVars>>

Load == \E i \in Peers : PeerLoad(i)

Complete == \E i \in Peers : PeerComplete(i)

NextPair == Load \/ Complete

SpecPair == InitPair /\ [][NextPair]_vars

(***************************************************************************)
(* C19.  Ingestions of different resources are independent: under one      *)
(* configuration two distinct resource identifiers derive distinct table   *)
(* names, so the table an ingestion writes, replaces or drops is never the *)
(* table of the other resource, and a resource whose run succeeded has its *)
(* own features in the table it recorded.                                  *)
(***************************************************************************)
C19_DistinctResourcesDistinctTables ==
    peers # <<>> =>
        /\ peers[1].id # peers[2].id => PeerTable(1) # PeerTable(2)
        /\ \A i \in Peers :
               peers[i].step = "done" =>
                   /\ Get(peers[i].extras, "vector_table") \in DOMAIN db
                   /\ db[Get(peers[i].extras, "vector_table")].count = i

(***************************************************************************)
(* C20.  A table that was loaded but whose enforcement (SRID, index,       *)
(* limit check) did not complete is never served as it is: with the        *)
(* feature enabled and the flag truthy, the next read through the facade   *)
(* re-ingests before it answers, or a later successful run has overwritten *)
(* the table; for a first ingestion and for a re-ingestion of a resource   *)
(* with recorded vector attributes alike.  So the table behind every       *)
(* answered read has the canonical SRID and its index.                     *)
(***************************************************************************)
ServedTable == Get(resource.extras, "vector_table")

C20_UnenforcedTableNeverServed ==
    (/\ response.handler \in {"metadata", "items"}
     /\ response.status = 200
     /\ config.enabled
     /\ FlagTruthy(resource)) =>
        /\ ServedTable \in DOMAIN db
        /\ db[ServedTable].srid = CanonicalSrid
        /\ db[ServedTable].indexed

(***************************************************************************)
(* C21.  Within one ingestion run the steps occur only in the order        *)
(* eligibility, size gate, extraction, SRID detection, pre-load feature    *)
(* count, load, SRID enforcement, index, post-load count check, attribute  *)
(* persistence, and each step runs only if every earlier one succeeded.    *)
(* No extraction for an archive over the size limit; no load when the      *)
(* pre-load count is known and over max_features; no rewrite of the        *)
(* attributes before enforcement and the post-load limit check passed.     *)
(***************************************************************************)
StepOrder == <<"should_process", "get_file_path", "validate_size", "build_pg_dsn",
               "mkdtemp", "extract", "detect_srid", "feature_count", "load",
               "enforce_srid", "ensure_spatial_index", "fetch_metadata",
               "update_extras">>

StepIndex(step) == CHOOSE k \in 1..Len(StepOrder) : StepOrder[k] = step

\* Where the run begins in the steps of a handler, and how many steps of the
\* order it performed from there, one after the other.
RunStart(tr) == CHOOSE i \in 1..Len(tr) : tr[i] = "should_process"

StepsDone(tr) ==
    CHOOSE n \in 0..Len(StepOrder) :
        /\ \A k \in 1..n : RunStart(tr) + k - 1 <= Len(tr)
                           /\ tr[RunStart(tr) + k - 1] = StepOrder[k]
        /\ \/ n = Len(StepOrder)
           \/ RunStart(tr) + n > Len(tr)
           \/ tr[RunStart(tr) + n] # StepOrder[n + 1]

AfterSteps(tr) == SubSeq(tr, RunStart(tr) + StepsDone(tr), Len(tr))

\* What follows the steps done: nothing of the run before the scratch
\* directory exists; after that its removal, preceded at most by the drop of
\* the table just loaded.
StepOfRun(step) ==
    step \in {"drop_table", "rmtree"} \cup {StepOrder[k] : k \in 1..11}

EndsRun(n, rest) ==
    IF n < StepIndex("mkdtemp")
    THEN \A j \in 1..Len(rest) : ~StepOfRun(rest[j])
    ELSE /\ rest # <<>>
         /\ \/ rest[1] = "rmtree"
            \/ Len(rest) >= 2 /\ rest[1] = "drop_table" /\ rest[2] = "rmtree"
         /\ \A j \in 2..Len(rest) :
                StepOfRun(rest[j]) => j = 2 /\ rest[1] = "drop_table"

C21_Step ==
    (RequestStarts /\ run'.called) =>
        /\ \E i \in 1..Len(trace') : trace'[i] = "should_process"
        /\ StepsDone(trace') >= 1
        /\ EndsRun(StepsDone(trace'), AfterSteps(trace'))
        /\ AfterSteps(trace') # <<>> /\ AfterSteps(trace')[1] = "drop_table"
               => StepsDone(trace') = StepIndex("fetch_metadata")
        /\ run'.skipped => StepsDone(trace') = 1
        /\ (run'.ok /\ ~run'.skipped) => StepsDone(trace') = Len(StepOrder)
        /\ (~run'.ok /\ StepsDone(trace') = Len(StepOrder)) => run'.err = HostError
        /\ run'.err = ShpToApiError("SizeLimitExceeded")
               => StepsDone(trace') < StepIndex("extract")
        /\ (run'.counted # -1 /\ run'.counted > config.max_features)
               => /\ StepsDone(trace') = StepIndex("feature_count")
                  /\ run'.err = ShpToApiError("FeatureLimitExceeded")
                  /\ db' = db
        /\ StepsDone(trace') = Len(StepOrder)
               => /\ run'.measured # -1
                  /\ run'.measured = 0 \/ run'.measured <= config.max_features
                  /\ LoadedTable \in DOMAIN db'
                  /\ db'[LoadedTable].srid = CanonicalSrid /\ db'[LoadedTable].indexed
        /\ ~run'.ok => VectorAttrs(resource'.extras) = VectorAttrs(resource.extras)

C21_StepsInOrder == [][C21_Step]_vars

\* ogrinfo counted more features than allowed: the run stopped before the load.
C21_Witness ==
    /\ run.called /\ ~run.ok
    /\ run.counted > config.max_features
    /\ run.err = ShpToApiError("FeatureLimitExceeded")
    /\ StepsDone(trace) = StepIndex("feature_count")
    /\ \A i \in 1..Len(trace) : trace[i] # "load"

\* C22: when the projection text holds no AUTHORITY["EPSG","<digits>"] token
\* and the fallback library yields no EPSG code (it is missing, it raises, or
\* it reports none), _detect_srid fails with the error "CRS could not be
\* detected" (UnknownCrs) and returns no SRID.
PrimaryYieldsCode == \E i \in 1..Len(content) : AuthorityTokenAt(content, i)

FallbackYieldsCode == pyproj.state = "ok" /\ pyproj.epsg # 0

C22_NoCodeMeansUnknownCrs ==
    (srid.done /\ ~PrimaryYieldsCode /\ ~FallbackYieldsCode) =>
        /\ ~srid.ok
        /\ srid.err = ShpToApiError("UnknownCrs")

\* C23: after a successful ingestion the attribute feature_count holds the
\* count _feature_count returned when it returned one, and otherwise the count
\* measured from the loaded table; the value is the text of an integer that is
\* at least 0 and at most max_features.
PersistedCount == IF run.counted # -1 THEN run.counted ELSE run.measured

IntegerText(n) == <<n>>

C23_PersistedFeatureCount ==
    (run.called /\ run.ok /\ ~run.skipped) =>
        /\ Get(resource.extras, "feature_count") = IntegerText(PersistedCount)
        /\ PersistedCount >= 0
        /\ PersistedCount <= config.max_features

(***************************************************************************)
(* SpecBbox: the items route on bbox texts put together from tokens, for a *)
(* resource whose flag is set and that is not ingested yet, is ingested,   *)
(* or has lost its table.  Nothing fails in the environment.               *)
(***************************************************************************)
TokPair == <<"1", ",", "-", "2", ".", "5">>
TokTriple == <<"0", ",", ".", "5", ",", "1", "_", "0">>
TokComma == <<",">>
TokLetter == <<"x">>
TokNan == <<"N", "a", "N">>
TokExponent == <<" ", "3", "E", "+", "1", " ">>
BboxTokens == {TokPair, TokTriple, TokComma, TokLetter, TokNan, TokExponent}

BboxInputs == {Absent} \cup {Given(Flatten(parts)) : parts \in Texts(BboxTokens, MaxTokens)}

BboxConfig ==
    [enabled |-> TRUE, auto_process |-> FALSE, max_features |-> 1, schema |-> T_public,
     table_prefix |-> VectorPrefix, flag_extra |-> FlagKey, max_items |-> 1]

BboxEnv == [stop |-> "none", pre |-> -1, post |-> 1]

BboxResource ==
    [id |-> ResId, url_type |-> "upload", format |-> F_SHP, url |-> U_zip,
     extras |-> Put(HostExtras, FlagKey, T_true)]

InitBbox ==
    /\ config = BboxConfig
    /\ \E stage \in {"flagged", "ingested", "dropped"} :
           LET r == process_resource(BboxConfig, BboxResource, <<>>, BboxEnv) IN
           /\ resource = IF stage = "flagged" THEN BboxResource
                         ELSE [BboxResource EXCEPT !.extras = r.extras]
           /\ db = IF stage = "ingested" THEN r.db ELSE <<>>
    /\ response = Idle
    /\ trace = <<>>
    /\ run = NoRun /\ request = NoRequest
    /\ StoreIdle /\ DeriveIdle /\ ArchiveIdle /\ SridIdle /\ PairIdle

ItemsBbox ==
    /\ response = Idle
    /\ \E b \in BboxInputs :
           Serve(PageRequest(Absent, Absent, b),
                 items(config, resource, db, BboxEnv, PageRequest(Absent, Absent, b)))

NextBbox ==
    \/ ItemsBbox
    \/ Deliver

SpecBbox == InitBbox /\ [][NextBbox]_vars

(***************************************************************************)
(* C24.  The bbox parameter of the items route.                            *)
(***************************************************************************)
\* A group of digits, underscores allowed one at a time between two digits.
DigitGroup(s) ==
    /\ s # <<>>
    /\ s[1] \in Digits /\ s[Len(s)] \in Digits
    /\ \A i \in 1..Len(s) : s[i] \in Digits \cup {"_"}
    /\ \A i \in 1..(Len(s) - 1) : ~(s[i] = "_" /\ s[i + 1] = "_")

Unsigned(s) == IF s # <<>> /\ s[1] \in {"+", "-"} THEN Tail(s) ELSE s

MantissaText(m) ==
    \/ DigitGroup(m)
    \/ \E p \in 1..Len(m) :
           /\ m[p] = "."
           /\ p = 1 \/ DigitGroup(SubSeq(m, 1, p - 1))
           /\ p = Len(m) \/ DigitGroup(SubSeq(m, p + 1, Len(m)))
           /\ Len(m) > 1

ExponentText(x) ==
    \/ x = <<>>
    \/ x[1] \in {"e", "E"} /\ DigitGroup(Unsigned(Tail(x)))

\* The text of a floating-point value: blanks, a sign, then a decimal number
\* with an optional exponent or one of the words inf, infinity, nan.
NumericText(t) ==
    \E a \in 0..Len(t), b \in 0..Len(t) :
        /\ a <= b
        /\ \A i \in 1..a : t[i] = " "
        /\ \A i \in (b + 1)..Len(t) : t[i] = " "
        /\ LET u == Unsigned(SubSeq(t, a + 1, b)) IN
           \/ lower(u) \in FloatWords
           \/ \E k \in 0..Len(u) :
                  MantissaText(SubSeq(u, 1, k)) /\ ExponentText(SubSeq(u, k + 1, Len(u)))

Commas(t) == Cardinality({i \in 1..Len(t) : t[i] = ","})

\* The part of t between its n-th comma and the next one.
Part(t, n) == split_comma(t)[n + 1]

FourNumbers(t) == Commas(t) = 3 /\ \A n \in 0..3 : NumericText(Part(t, n))

BboxWellFormed(raw) == ~raw.given \/ raw.text = <<>> \/ FourNumbers(raw.text)

FeatureQuerySent ==
    \/ \E i \in 1..Len(trace) : trace[i] = "fetch_features"
    \/ \E i \in 1..Len(sqlLog) : sqlLog[i].verb = "SELECT ST_AsGeoJSON"

StoreSteps == {"table_exists", "load", "enforce_srid", "ensure_spatial_index",
               "fetch_metadata", "drop_table", "fetch_features"}

\* C24 (as stated): the bbox parameter is accepted exactly when it is absent,
\* empty or four comma-separated numeric values; any other shape ends the items
\* request with status 400 before any query is sent to the store.
C24_BadBboxRejectedBeforeAnyQuery ==
    response.handler = "items" =>
        /\ BboxWellFormed(request.bbox) => response.status = 200 /\ FeatureQuerySent
        /\ ~BboxWellFormed(request.bbox) =>
               /\ response.status = 400
               /\ \A i \in 1..Len(trace) : trace[i] \notin StoreSteps
               /\ sqlLog = <<>>

\* C24 (amended): on a request that gets as far as its parameters, the bbox
\* parameter is accepted and the feature query is sent exactly when it is
\* absent, empty or four comma-separated numeric values; any other shape ends
\* the request with status 400 and the feature query is not sent.
C24_BadBboxRejectedBeforeFeatureQuery ==
    response.handler = "items" =>
        /\ BboxWellFormed(request.bbox) => response.status = 200 /\ FeatureQuerySent
        /\ ~BboxWellFormed(request.bbox) =>
               /\ response.status = 400
               /\ response.raised \in {ShpToApiError("BboxShape"),
                                       ShpToApiError("BboxNotNumeric")}
               /\ ~FeatureQuerySent

C24_Witness ==
    /\ response.handler = "items"
    /\ request.bbox = Given(TokTriple \o TokComma \o TokLetter)
    /\ response.status = 400
    /\ response.raised = ShpToApiError("BboxNotNumeric")
    /\ ~FeatureQuerySent

(***************************************************************************)
(* SpecUndisturbed: the life of the resource with nobody but the extension *)
(* touching the database: the handlers of Spec without the drop behind its *)
(* back.                                                                   *)
(***************************************************************************)
NextUndisturbed ==
    \/ AfterCreate
    \/ AfterUpdate
    \/ Metadata
    \/ Items
    \/ Panel
    \/ Deliver

SpecUndisturbed == Init /\ [][NextUndisturbed]_vars

\* C25: with no change made to the database from outside, after every
\* completed operation on the resource (the hooks, the reads with their lazy
\* re-ingestion, the panel's enable and disable) the table its attributes
\* record exists.
C25_RecordedTableExists ==
    Get(resource.extras, "vector_table") # <<>> =>
        Get(resource.extras, "vector_table") \in DOMAIN db

(***************************************************************************)
(* C26.  The panel's disable, the reads that follow it, and a POST with an *)
(* unknown action.                                                         *)
(***************************************************************************)
DisablePost ==
    /\ RequestStarts
    /\ response'.handler = "panel"
    /\ request'.method = "POST" /\ request'.action = "disable"

DropLogged == \E i \in 1..Len(trace') : trace'[i] = "log_exception"

ReadWhileFlagOff ==
    /\ RequestStarts
    /\ response'.handler \in {"metadata", "items"}
    /\ ~FlagTruthy(resource)

UnknownActionPost ==
    /\ RequestStarts
    /\ response'.handler = "panel"
    /\ request'.method = "POST" /\ request'.action \notin {"enable", "disable"}

\* C26: a panel POST disable that completes leaves the flag "false", none of
\* the six vector attributes, every other attribute as it was, and the table
\* the attributes recorded dropped (the database executing the DROP); while
\* the flag is not truthy no metadata or items read runs an ingestion or
\* changes the database; a POST with another action changes nothing and is
\* answered with a client error.
C26_Step ==
    /\ (DisablePost /\ response'.status = 302) =>
           /\ FlagKey \in DOMAIN resource'.extras
           /\ resource'.extras[FlagKey] = T_false
           /\ DOMAIN resource'.extras \cap VectorKeys = {}
           /\ DOMAIN resource'.extras \ {FlagKey}
                  = DOMAIN resource.extras \ (VectorKeys \cup {FlagKey})
           /\ \A k \in DOMAIN resource.extras \ (VectorKeys \cup {FlagKey}) :
                  resource'.extras[k] = resource.extras[k]
           /\ ~DropLogged => Get(resource.extras, "vector_table") \notin DOMAIN db'
           /\ ~run'.called
    /\ ReadWhileFlagOff =>
           /\ ~run'.called
           /\ db' = db
           /\ resource' = resource
    /\ UnknownActionPost =>
           /\ response'.status \in {400, 403}
           /\ request'.may_update => response'.status = 400
           /\ ~run'.called
           /\ db' = db
           /\ resource' = resource

====
